---- MODULE Spec2Model ----
(***************************************************************************)
(* Verification model of the reCAPTCHA v2 solver:                          *)
(*   - CaptchaWatcher: the polling observer with its three detectors,      *)
(*   - the visual solver protocol (checkbox race, tile rounds, verify),    *)
(*   - the audio solver protocol and the audio download/transcribe step.   *)
(* JavaScript runs one task at a time: every action below is the code that *)
(* runs between two suspension points (await) of one async function.       *)
(***************************************************************************)
EXTENDS Integers, Sequences, FiniteSets, TLC

(***************************************************************************)
(* Bounds of the model.                                                    *)
(***************************************************************************)
\* how many times startWatching may actually start the three detectors
MaxStarts == 2
\* how many loops of one detector may run at once (a restart while loops of
\* an earlier start still sleep adds loops)
MaxPollers == 1
\* longest image-URL list a read of the challenge frame returns
MaxImages == 1

(***************************************************************************)
(* Values.  A nullable JavaScript value is a sequence of length <= 1.      *)
(***************************************************************************)
Null == <<>>
Some(v) == <<v>>

\* The prompt texts the page can show.  A text is the sequence of its
\* phrases; the empty text "" is the empty sequence.
SelectPhrase == "Select all images with"
DynamicPhrase == "Click verify once there are none left"
EmptyText == <<>>
StaticText == <<SelectPhrase, "cars">>
DynamicText == <<SelectPhrase, "a bus", DynamicPhrase>>
Texts == {EmptyText, StaticText, DynamicText}

\* text.includes(phrase)
Includes(text, phrase) == \E i \in 1..Len(text) : text[i] = phrase

Urls == {"u1", "u2"}
ImageLists == UNION {[1..n -> Urls] : n \in 0..MaxImages}

\* The object the challenge frame's evaluate() returns on a fully-loaded read.
ChallengeInfo(text, urls) ==
    [text |-> text,
     hasCorrectFormat |-> Includes(text, SelectPhrase),
     isDynamic |-> Includes(text, DynamicPhrase),
     imageUrls |-> urls]
Infos == {ChallengeInfo(t, u) : t \in Texts, u \in ImageLists}

Events == {"onChallengeOpen", "onCaptchaReady", "onChallengeChange",
           "onTilesReady", "onTokenFound"}
Detectors == {"ready", "challenge", "token"}

VARIABLES
    \* ---- CaptchaWatcher fields
    page, isWatching, currentChallengeText, currentCaptchaFrame,
    currentChallengeFrame, currentImageUrls, currentCheckbox, callbacks,
    \* ---- the detector loops: pollers[d][pc] = number of running
    \* instances of detector d suspended at pc
    pollers,
    \* ---- the promise the protocol is awaiting: Null while pending
    settled,
    \* ---- observation: callbacks invoked by the step just taken, how many
    \* times startWatching started the detectors, how often onCaptchaReady ran
    fired, starts, readyFired,
    \* ---- the visual solver: its local state, and what it has done
    vis, obs,
    \* ---- the audio solver: its local state, what it has done, and the
    \* call of downloadAndTranscribeAudio it is waiting for
    aud, aobs, dl,
    \* ---- a call of analyzeWithGemini
    ana,
    \* ---- the user-data directories and browsers of the audio generator
    dirs,
    \* ---- a run of a token generator with its sessions
    gen,
    \* ---- a ResultTracker
    tracker,
    \* ---- a call of solve2Captcha
    cap

watcherVars == <<page, isWatching, currentChallengeText, currentCaptchaFrame,
                 currentChallengeFrame, currentImageUrls, currentCheckbox,
                 callbacks, pollers, settled, fired, starts, readyFired>>

\* the state of the protocols that use the watcher
\* the state of the parts that are modelled on their own
libVars == <<ana, dirs, gen, tracker, cap>>

protoVars == <<vis, obs, aud, aobs, dl, libVars>>

vars == <<watcherVars, protoVars>>

\* the watcher and the two solvers
solverVars == <<watcherVars, vis, obs, aud, aobs, dl>>

\* The solver before it is called, and a record of nothing done.
IdleVis ==
    [variant |-> "standalone", pc |-> "idle", attempts |-> 0,
     caller |-> "none", geminiConfig |-> TRUE, challengeInfo |-> Null,
     dynamicIteration |-> 0, tilesToClick |-> Null, tile |-> 0,
     depth |-> 0, verifyCheck |-> Null, result |-> Null]

NoObs ==
    [iterations |-> 0, checkboxWinner |-> "none", roundWork |-> FALSE,
     analyses |-> 0, clicked |-> <<>>, tiles |-> <<>>,
     roundOutcome |-> "none",
     roundFault |-> "none", verified |-> FALSE, thrown |-> FALSE]

\* pending: the pollers of the races that have not resolved yet.  Two
\* observations of the pollers: emptyWinner, for the races that follow the
\* checkbox click and the verify click, is the poller that decided the last
\* run by giving up empty-handed ("none" when a result decided it); lost
\* holds the pollers that came back with a result after their race had
\* been decided that way
IdleAud ==
    [pc |-> "idle", audioAttempts |-> 0, isBlocked |-> FALSE,
     pending |-> {}, result |-> Null,
     emptyWinner |-> [raceCheckbox |-> "none", raceVerify |-> "none"],
     lost |-> {}]

NoAobs ==
    [blocked |-> FALSE, downloads |-> 0, typed |-> 0, verifyClicks |-> 0,
     gets |-> 0, statuses |-> <<>>, requests |-> 0]

\* fault is an observation: the step of the call that threw, if any
IdleAna ==
    [pc |-> "idle", variant |-> "standalone", geminiConfig |-> TRUE,
     gridType |-> "", gridDesc |-> Null,
     response |-> Null, json |-> Null, fault |-> "none", result |-> Null]

\* the module state of the audio script before generateCaptchaTokens runs
IdleDirs ==
    [concurrentBrowsers |-> 0, userDataDirs |-> {}, activeBrowsers |-> {},
     isRestartInProgress |-> FALSE, totalAttempts |-> 0, main |-> "idle",
     restart |-> "idle", launched |-> 0, browsers |-> <<>>]

\* a generator before it is called; tornDown is an observation: the
\* sessions that were still running when their browser was closed
IdleGen ==
    [variant |-> "audio", pc |-> "idle", eventEmitter |-> TRUE,
     apiKeys |-> <<>>,
     tokensToGenerate |-> [finite |-> FALSE, n |-> 0], concurrentBrowsers |-> 0,
     tabsPerBrowser |-> 0, tokensGenerated |-> 0, shouldContinue |-> TRUE,
     browserIndex |-> 0, tabIndex |-> 0, tabsForThisBrowser |-> 0,
     launched |-> 0, open |-> {}, activeBrowsers |-> {}, failed |-> FALSE,
     sessions |-> <<>>, results |-> <<>>, tornDown |-> {}]

\* a ResultTracker after new ResultTracker(); calls is an observation, and
\* so are kind (which of the two classes) and inputs (what its caller is
\* going to pass)
IdleTracker ==
    [pc |-> "idle", kind |-> "token", inputs |-> <<>>, results |-> <<>>,
     calls |-> 0]

\* solveCaptchaChallenge of the 2captcha code before the call; waits, polls
\* and inner (how solve2Captcha ended) are observations
IdleCap ==
    [pc |-> "idle", attempts |-> 0, waits |-> 0, polls |-> 0,
     inner |-> "none", solution |-> Null, result |-> Null]

IdleDl ==
    [pc |-> "idle", downloadAttempts |-> 0, audioData |-> Null,
     fullResponse |-> <<>>, result |-> Null]

(***************************************************************************)
(* CaptchaWatcher                                                          *)
(***************************************************************************)
NoPollers == [d \in Detectors |-> [pc \in {"wait", "eval", "query"} |-> 0]]

\* constructor
WatcherInit ==
    /\ page = Null
    /\ isWatching = FALSE
    /\ currentChallengeText = Null
    /\ currentCaptchaFrame = Null
    /\ currentChallengeFrame = Null
    /\ currentImageUrls = Null
    /\ currentCheckbox = Null
    /\ callbacks = [e \in Events |-> "noop"]
    /\ pollers = NoPollers
    /\ settled = Null
    /\ fired = <<>>
    /\ starts = 0
    /\ readyFired = 0

\* the watcher never taking a read for the first one
MutNeverFirst(x) == FALSE

\* !x for a nullable string
Falsy(x) == x = Null \/ x[1] = EmptyText

Move(d, from, to) ==
    [pollers EXCEPT ![d][from] = @ - 1, ![d][to] = pollers[d][to] + 1]
Leave(d, from) == [pollers EXCEPT ![d][from] = @ - 1]

\* Invoking this.callbacks[e](payload).  An armed slot holds a resolver of
\* the promise the protocol awaits: it settles the promise if it is still
\* pending (first to resolve wins) and is spent afterwards.
Invoke(cbs, e) == IF cbs[e] = "armed" THEN [cbs EXCEPT ![e] = "spent"] ELSE cbs
Settle(cbs, e, outcome, s) ==
    IF cbs[e] = "armed" /\ s = Null THEN Some(outcome) ELSE s

\* _checkIfChallengeChanged with the length comparison left out.
MutCheckNoLength(curText, curUrls, newText, newUrls) ==
    IF curText # Some(newText) THEN TRUE
    ELSE IF curUrls = Null \/ newUrls = Null THEN TRUE
    ELSE \E index \in 1..Len(curUrls[1]) :
            \/ index > Len(newUrls[1])
            \/ curUrls[1][index] # newUrls[1][index]

\* _checkIfChallengeChanged(newChallengeInfo), on the stored text and URLs.
\* newUrls is the nullable newChallengeInfo.imageUrls.
checkIfChallengeChanged(curText, curUrls, newText, newUrls) ==
    IF curText # Some(newText) THEN TRUE
    ELSE IF curUrls = Null \/ newUrls = Null THEN TRUE
    ELSE IF Len(curUrls[1]) # Len(newUrls[1]) THEN TRUE
    ELSE \E index \in 1..Len(curUrls[1]) : curUrls[1][index] # newUrls[1][index]

\* ---- the public methods, as the part of a step that acts on the watcher.

\* startWatching(), reading the page the step leaves in this.page
startWatching ==
    IF page' = Null \/ isWatching
    THEN UNCHANGED <<isWatching, pollers, starts>>
    ELSE /\ isWatching' = TRUE
         \* each detector runs up to its first await: page.frames() for the
         \* two frame detectors, page.evaluate() for the token detector
         /\ pollers' = [pollers EXCEPT !["ready"]["wait"] = @ + 1,
                                       !["challenge"]["wait"] = @ + 1,
                                       !["token"]["eval"] = @ + 1]
         /\ starts' = starts + 1

setPage(p) ==
    /\ page' = Some(p)
    /\ currentChallengeText' = Null
    /\ startWatching
    /\ UNCHANGED <<currentCaptchaFrame, currentChallengeFrame,
                   currentImageUrls, currentCheckbox>>

stopWatching == isWatching' = FALSE

cleanup ==
    /\ stopWatching
    /\ page' = Null
    /\ currentCaptchaFrame' = Null
    /\ currentChallengeFrame' = Null
    /\ currentCheckbox' = Null
    /\ currentChallengeText' = Null
    /\ currentImageUrls' = Null
    /\ UNCHANGED <<pollers, starts>>

\* ---- the detector loops.

\* A detector wakes from its 100 ms sleep (or from page.frames()), finds
\* isWatching set and starts the next evaluate().
PollResume(d) ==
    /\ pollers[d]["wait"] > 0
    /\ isWatching
    /\ pollers' = Move(d, "wait", "eval")
    /\ fired' = <<>>
    /\ UNCHANGED <<page, isWatching, currentChallengeText, currentCaptchaFrame,
                   currentChallengeFrame, currentImageUrls, currentCheckbox,
                   callbacks, settled, starts, readyFired>>
    /\ UNCHANGED protoVars

\* A detector wakes, finds isWatching cleared and returns.
PollExit(d) ==
    /\ pollers[d]["wait"] > 0
    /\ ~isWatching
    /\ pollers' = Leave(d, "wait")
    /\ fired' = <<>>
    /\ UNCHANGED <<page, isWatching, currentChallengeText, currentCaptchaFrame,
                   currentChallengeFrame, currentImageUrls, currentCheckbox,
                   callbacks, settled, starts, readyFired>>
    /\ UNCHANGED protoVars

\* _pollForCaptchaReady: captchaFrame.evaluate() returns or throws.
ReadyEvalDone ==
    /\ pollers["ready"]["eval"] > 0
    /\ \E outcome \in {"throw", "null", "ready"} :
         /\ pollers' = CASE outcome = "throw" -> Leave("ready", "eval")
                         [] outcome = "null" -> Move("ready", "eval", "wait")
                         [] outcome = "ready" -> Move("ready", "eval", "query")
         /\ currentCaptchaFrame' =
                IF outcome = "ready" THEN Some("anchor") ELSE currentCaptchaFrame
    /\ fired' = <<>>
    /\ UNCHANGED <<page, isWatching, currentChallengeText,
                   currentChallengeFrame, currentImageUrls, currentCheckbox,
                   callbacks, settled, starts, readyFired>>
    /\ UNCHANGED protoVars

\* The detector going on polling after it has called onCaptchaReady.
MutReadyKeepsPolling == Move("ready", "query", "wait")

\* "return;" after the onCaptchaReady call: the detector ends.
ReadyReturn == Leave("ready", "query")

\* _pollForCaptchaReady: captchaFrame.$() returns the checkbox handle (or
\* null, or throws), onCaptchaReady is called and the detector returns.
ReadyQueryDone ==
    /\ pollers["ready"]["query"] > 0
    /\ \E outcome \in {"throw", "null", "handle"} :
         IF outcome = "throw"
         THEN /\ pollers' = Leave("ready", "query")
              /\ fired' = <<>>
              /\ UNCHANGED <<currentCheckbox, callbacks, settled, readyFired>>
         ELSE /\ pollers' = ReadyReturn
              /\ currentCheckbox' =
                     IF outcome = "handle" THEN Some("checkbox") ELSE Null
              /\ callbacks' = Invoke(callbacks, "onCaptchaReady")
              /\ settled' = Settle(callbacks, "onCaptchaReady",
                                   [type |-> "ready"], settled)
              /\ fired' = <<[event |-> "onCaptchaReady"]>>
              /\ readyFired' = readyFired + 1
    /\ UNCHANGED <<page, isWatching, currentChallengeText, currentCaptchaFrame,
                   currentChallengeFrame, currentImageUrls, starts>>
    /\ UNCHANGED protoVars

\* Lines 284-308: what _pollForChallengeFrame does with a fully-loaded read.
ChallengeRead(info) ==
    LET hasChanged == checkIfChallengeChanged(currentChallengeText,
                          currentImageUrls, info.text, Some(info.imageUrls))
        second == IF Falsy(currentChallengeText) THEN "onChallengeOpen"
                  ELSE IF hasChanged THEN "onChallengeChange"
                  ELSE "none"
        afterTiles == Invoke(callbacks, "onTilesReady")
        settledTiles == Settle(callbacks, "onTilesReady",
                               [type |-> "tiles"], settled)
    IN  /\ currentChallengeFrame' = Some("bframe")
        /\ IF second = "none"
           THEN /\ UNCHANGED <<currentChallengeText, currentImageUrls>>
                /\ callbacks' = afterTiles
                /\ settled' = settledTiles
                /\ fired' = <<[event |-> "onTilesReady", info |-> info]>>
           ELSE \* _updateCurrentChallenge(challengeInfo)
                /\ currentChallengeText' = Some(info.text)
                /\ currentImageUrls' = Some(info.imageUrls)
                /\ callbacks' = Invoke(afterTiles, second)
                /\ settled' = Settle(afterTiles, second,
                                     [type |-> "challenge", value |-> info],
                                     settledTiles)
                /\ fired' = <<[event |-> "onTilesReady", info |-> info],
                              [event |-> second, info |-> info]>>

\* _pollForChallengeFrame: challengeFrame.evaluate() returns or throws.
ChallengeEvalDone(infos) ==
    /\ pollers["challenge"]["eval"] > 0
    /\ \/ \* the evaluate throws: the outer catch logs and the loop ends
          /\ pollers' = Leave("challenge", "eval")
          /\ fired' = <<>>
          /\ UNCHANGED <<currentChallengeText, currentChallengeFrame,
                         currentImageUrls, callbacks, settled>>
       \/ \* not fully loaded: null
          /\ pollers' = Move("challenge", "eval", "wait")
          /\ fired' = <<>>
          /\ UNCHANGED <<currentChallengeText, currentChallengeFrame,
                         currentImageUrls, callbacks, settled>>
       \/ \E info \in infos :
            /\ pollers' = Move("challenge", "eval", "wait")
            /\ ChallengeRead(info)
    /\ UNCHANGED <<page, isWatching, currentCaptchaFrame, currentCheckbox,
                   starts, readyFired>>
    /\ UNCHANGED protoVars

Tokens == {"token1", "token2"}

\* The token detector going on polling after it has called onTokenFound.
MutTokenKeepsPolling == Move("token", "eval", "wait")

\* "return;" after the onTokenFound call: the detector ends.
TokenReturn == Leave("token", "eval")

\* _pollForToken: page.evaluate() returns the textarea value, or throws.
TokenEvalDone ==
    /\ pollers["token"]["eval"] > 0
    /\ \/ \* thrown errors are swallowed, an empty value is not a token
          /\ pollers' = Move("token", "eval", "wait")
          /\ fired' = <<>>
          /\ UNCHANGED <<callbacks, settled>>
       \/ \E token \in Tokens :
            /\ pollers' = TokenReturn
            /\ callbacks' = Invoke(callbacks, "onTokenFound")
            /\ settled' = Settle(callbacks, "onTokenFound",
                                 [type |-> "token", value |-> token], settled)
            /\ fired' = <<[event |-> "onTokenFound", token |-> token]>>
    /\ UNCHANGED <<page, isWatching, currentChallengeText, currentCaptchaFrame,
                   currentChallengeFrame, currentImageUrls, currentCheckbox,
                   starts, readyFired>>
    /\ UNCHANGED protoVars

(***************************************************************************)
(* The watcher driven by an arbitrary client.                              *)
(***************************************************************************)
\* The client starts the detectors at most MaxStarts times, and only while
\* fewer than MaxPollers loops of each detector are still running.
Population(d) == pollers[d]["wait"] + pollers[d]["eval"] + pollers[d]["query"]
MayStart == starts < MaxStarts /\ \A d \in Detectors : Population(d) < MaxPollers

SetPage ==
    /\ isWatching \/ MayStart
    /\ setPage("page")
    /\ fired' = <<>>
    /\ UNCHANGED <<callbacks, settled, readyFired>>
    /\ UNCHANGED protoVars

StartWatching ==
    /\ page = Null \/ isWatching \/ MayStart
    /\ page' = page
    /\ startWatching
    /\ fired' = <<>>
    /\ UNCHANGED <<currentChallengeText, currentCaptchaFrame,
                   currentChallengeFrame, currentImageUrls, currentCheckbox,
                   callbacks, settled, readyFired>>
    /\ UNCHANGED protoVars

StopWatching ==
    /\ stopWatching
    /\ fired' = <<>>
    /\ UNCHANGED <<page, currentChallengeText, currentCaptchaFrame,
                   currentChallengeFrame, currentImageUrls, currentCheckbox,
                   callbacks, pollers, settled, starts, readyFired>>
    /\ UNCHANGED protoVars

Cleanup ==
    /\ cleanup
    /\ fired' = <<>>
    /\ UNCHANGED <<callbacks, settled, readyFired>>
    /\ UNCHANGED protoVars

NoAudio == aud = IdleAud /\ aobs = NoAobs /\ dl = IdleDl

\* The parts below are modelled one at a time: a specification gives the
\* variable of its part a value and leaves the others empty.
Parts(a, d, g, t, c) ==
    /\ ana = a
    /\ dirs = d
    /\ gen = g
    /\ tracker = t
    /\ cap = c

NoLib == Parts(Null, Null, Null, Null, Null)

InitWatcher ==
    WatcherInit /\ vis = IdleVis /\ obs = NoObs /\ NoAudio /\ NoLib

NextWatcher ==
    \/ SetPage
    \/ StartWatching
    \/ StopWatching
    \/ Cleanup
    \/ \E d \in Detectors : PollResume(d)
    \/ \E d \in Detectors : PollExit(d)
    \/ ReadyEvalDone
    \/ ReadyQueryDone
    \/ ChallengeEvalDone(Infos)
    \/ TokenEvalDone

SpecWatcher == InitWatcher /\ [][NextWatcher]_vars

(***************************************************************************)
(* The visual solver: solveCaptchaChallenge(page) and what it calls.       *)
(* vis is the solver's own state: where it is suspended (pc), the locals   *)
(* of solveChallengeLoop and handleChallengeTiles, and which build runs    *)
(* (the standalone script or the library).  obs records what it has done.  *)
(***************************************************************************)
maxAttempts == 4
maxDynamicIterations == 4
MaxDepth == 4       \* how deep verifyChallenge may recurse

Variants == {"standalone", "library"}

\* What getCurrentChallenge keeps of the prompt it reads.
PromptInfo(text) ==
    [text |-> text,
     hasCorrectFormat |-> Includes(text, SelectPhrase),
     isDynamic |-> Includes(text, DynamicPhrase)]

\* The keys of the analysis response that are marked has_match.
Keys == {"[1,2]", "[3,3]", "[4,4]", "[1,4]"}
TileAnswers == {<<>>, <<"[1,4]">>, <<"[1,2]", "[3,3]">>, <<"[4,4]">>}

\* coord.substring(1, coord.length - 1).split(',').map(Number)
ParseCoord(coord) ==
    CASE coord = "[1,2]" -> <<1, 2>>
      [] coord = "[3,3]" -> <<3, 3>>
      [] coord = "[4,4]" -> <<4, 4>>
      [] coord = "[1,4]" -> <<1, 4>>

\* document.querySelectorAll('.rc-imageselect-tile').length
TileCounts == {0, 9, 16}

\* clickTile: the index of the tile a coordinate names
tileIndex(coord, tiles) ==
    LET gridSize == IF tiles = 9 THEN 3 ELSE 4
        row == ParseCoord(coord)[1]
        col == ParseCoord(coord)[2]
    IN  (row - 1) * gridSize + (col - 1)

\* clickTile: tiles[index] exists, is clicked, and true is returned
clickTile(coord, tiles) == tileIndex(coord, tiles) < tiles

\* The place in the grid of the tile tiles[index] that clickTile clicks:
\* querySelectorAll returns the tiles row by row.
clickedTile(coord, tiles) ==
    LET gridSize == IF tiles = 9 THEN 3 ELSE 4
        index == tileIndex(coord, tiles)
    IN  <<(index \div gridSize) + 1, (index % gridSize) + 1>>

\* Registering callbacks for a new wait: resolvers of promises that are no
\* longer awaited stay in their slots but have no effect.
Disarm(cbs) == [e \in Events |-> IF cbs[e] = "armed" THEN "spent" ELSE cbs[e]]
Arm(cbs, S) == [e \in Events |-> IF e \in S THEN "armed" ELSE cbs[e]]

\* A step of the solver that goes on: it waits for the callbacks in S.
Step(v, o, S) ==
    /\ vis' = v
    /\ obs' = o
    /\ callbacks' = Arm(Disarm(callbacks), S)
    /\ settled' = Null
    /\ UNCHANGED <<page, isWatching, currentChallengeText, currentCaptchaFrame,
                   currentChallengeFrame, currentImageUrls, currentCheckbox,
                   pollers, starts, aud, aobs, dl, libVars>>

\* solveCaptchaChallenge returns r; its finally block runs watcher.cleanup()
Finish(v, o, r) ==
    /\ vis' = [v EXCEPT !.pc = "done", !.result = r]
    /\ obs' = o
    /\ callbacks' = Disarm(callbacks)
    /\ settled' = Null
    /\ cleanup
    /\ UNCHANGED <<aud, aobs, dl, libVars>>

\* an exception reaches the catch of solveCaptchaChallenge
Thrown(v, o) == Finish(v, [o EXCEPT !.thrown = TRUE], Null)

\* solveChallengeLoop with the failure branches counting nothing
MutNoIncrement(attempts) == attempts

\* solveChallengeLoop: attempts++ on every failure branch
afterFailure(attempts) == attempts + 1

\* The head of the while loop of solveChallengeLoop, up to the first await
\* that suspends.  getCurrentChallenge returns null without suspending for
\* long when the watcher has no challenge frame, so the loop then runs
\* through all remaining attempts at once.
EnterLoop(v, o) ==
    IF v.attempts < maxAttempts /\ currentChallengeFrame # Null
    THEN Step([v EXCEPT !.pc = "getChallenge", !.depth = 0],
              [o EXCEPT !.iterations = @ + 1], {})
    ELSE IF v.attempts < maxAttempts
    THEN Finish([v EXCEPT !.attempts = maxAttempts],
                [o EXCEPT !.iterations = @ + (maxAttempts - v.attempts)], Null)
    ELSE Finish(v, o, Null)

\* handleChallengeTiles(watcher, challengeInfo, geminiConfig) starts
StartTiles(v, o, info, caller, config) ==
    Step([v EXCEPT !.pc = "tilesWait", !.challengeInfo = Some(info),
                   !.caller = caller, !.geminiConfig = config,
                   !.dynamicIteration = 0, !.tilesToClick = Null, !.tile = 0],
         [o EXCEPT !.analyses = 0, !.clicked = <<>>, !.tiles = <<>>,
                   !.roundOutcome = "running",
                   !.roundFault = "none", !.verified = FALSE],
         {"onTilesReady"})

\* handleChallengeTiles returns false: solveChallengeLoop counts the attempt,
\* directly or after verifyChallenge has returned null
RoundFailed(v, o, fault) ==
    EnterLoop([v EXCEPT !.attempts = afterFailure(@)],
              [o EXCEPT !.roundOutcome = "false", !.roundFault = fault])

\* handleChallengeTiles returns true: verifyChallenge(watcher) starts
RoundDone(v, o) ==
    Step([v EXCEPT !.pc = "verifyWait"], [o EXCEPT !.roundOutcome = "true"],
         {"onTilesReady"})

\* getCurrentChallenge or verifyChallenge returns null: attempts++, and
\* after verifyChallenge the 1 s pause of the loop
AttemptFailed(v, o) == EnterLoop([v EXCEPT !.attempts = afterFailure(@)], o)

\* handleCheckboxClick returning null whoever wins the race
MutCheckboxIgnoresToken(result) == Null

\* handleCheckboxClick, lines 688-693: the value it returns for the winner
\* of the race
checkboxResult(result) ==
    IF result.type = "token" THEN Some(result.value) ELSE Null

\* handleChallengeTiles going on after a static round
MutStaticGoesOn(info) == FALSE

\* handleChallengeTiles, line 856: if (!challengeInfo.isDynamic) break
staticDone(info) == ~info.isDynamic

\* handleChallengeTiles allowing one iteration more
MutDynamicOneMore(dynamicIteration) == dynamicIteration > maxDynamicIterations

\* handleChallengeTiles, line 860: dynamicIteration >= maxDynamicIterations
dynamicDone(dynamicIteration) == dynamicIteration >= maxDynamicIterations

\* solveCaptchaChallenge: new CaptchaWatcher(), watcher.setPage(page), and
\* waitForCaptchaReady registers its callback
VStart ==
    /\ vis.pc = "start"
    /\ setPage("page")
    /\ vis' = [vis EXCEPT !.pc = "awaitReady"]
    /\ callbacks' = Arm(callbacks, {"onCaptchaReady"})
    /\ settled' = Null
    /\ fired' = <<>>
    /\ UNCHANGED <<obs, readyFired, aud, aobs, dl, libVars>>

MutReadyNotAwaited == TRUE

\* await waitForCaptchaReady(watcher): the promise that onCaptchaReady
\* resolves is settled
captchaReadyResolved == settled # Null

\* onCaptchaReady has resolved: handleCheckboxClick reads the checkbox
VCaptchaReady ==
    /\ vis.pc = "awaitReady"
    /\ captchaReadyResolved
    /\ IF currentCheckbox = Null
       THEN EnterLoop(vis, obs)
       ELSE Step([vis EXCEPT !.pc = "clickCheckbox"], obs, {})
    /\ fired' = <<>>
    /\ UNCHANGED readyFired

\* checkbox.click() returns or throws; on return the race is set up
VCheckboxClicked ==
    /\ vis.pc = "clickCheckbox"
    /\ \/ EnterLoop(vis, obs)
       \/ Step([vis EXCEPT !.pc = "raceCheckbox"], obs,
               {"onTokenFound", "onChallengeOpen"})
    /\ fired' = <<>>
    /\ UNCHANGED readyFired

\* Promise.race([waitForToken, waitForChallenge]) has a winner
VCheckboxRace ==
    /\ vis.pc = "raceCheckbox"
    /\ settled # Null
    /\ LET result == settled[1]
           initialResult == checkboxResult(result)
           o == [obs EXCEPT !.checkboxWinner = result.type]
       IN  IF initialResult # Null
           THEN Finish(vis, o, initialResult)
           ELSE EnterLoop(vis, o)
    /\ fired' = <<>>
    /\ UNCHANGED readyFired

\* refreshChallenge(frame) is called
Refresh(v, o) == Step([v EXCEPT !.pc = "refresh"], o, {})

\* getCurrentChallenge: frame.evaluate() returns the prompt, null, or throws
VGetChallenge ==
    /\ vis.pc = "getChallenge"
    /\ \/ Thrown(vis, obs)
       \/ Refresh(vis, obs)
       \/ \E text \in Texts :
            LET challengeInfo == PromptInfo(text)
            IN  IF ~challengeInfo.hasCorrectFormat
                THEN Refresh(vis, obs)
                ELSE StartTiles(vis, obs, challengeInfo, "loop", TRUE)
    /\ fired' = <<>>
    /\ UNCHANGED readyFired

\* refreshChallenge returns or throws; its caller then returns null
VRefreshed ==
    /\ vis.pc = "refresh"
    /\ \/ AttemptFailed(vis, obs)
       \/ /\ vis.variant = "standalone"
          /\ Thrown(vis, obs)
    /\ fired' = <<>>
    /\ UNCHANGED readyFired

\* A timer of the wait the solver is suspended in fires first: 10 s for the
\* tiles, 5 s for the race after the verify click.
TimerFires ==
    /\ vis.pc \in {"tilesWait", "shotWait", "verifyWait", "raceVerify"}
    /\ settled = Null
    /\ settled' = Some([type |-> "timeout"])
    /\ fired' = <<>>
    /\ UNCHANGED <<page, isWatching, currentChallengeText, currentCaptchaFrame,
                   currentChallengeFrame, currentImageUrls, currentCheckbox,
                   callbacks, pollers, starts, readyFired, vis, obs,
                   aud, aobs, dl, libVars>>

\* handleChallengeTiles: the wait for the tiles ends; on success the 1 s
\* pause, and takeScreenshotAndAnalyze starts with mkdir and frame.$()
VTilesReady ==
    /\ vis.pc = "tilesWait"
    /\ settled # Null
    /\ IF settled[1].type = "timeout"
       THEN RoundFailed(vis, obs, "tilesTimeout")
       ELSE Step([vis EXCEPT !.pc = "findArea"], obs, {})
    /\ fired' = <<>>
    /\ UNCHANGED readyFired

\* takeScreenshotAndAnalyze: frame.$('.rc-imageselect-challenge') returns
\* the element or null, or throws
VFoundArea ==
    /\ vis.pc = "findArea"
    /\ \/ Thrown(vis, obs)
       \/ RoundFailed(vis, obs, "noChallengeArea")
       \/ Step([vis EXCEPT !.pc = "shotWait"], obs, {"onTilesReady"})
    /\ fired' = <<>>
    /\ UNCHANGED readyFired

\* takeScreenshotAndAnalyze: the second wait for the tiles ends, a timeout
\* is caught; the 1 s pause, and the screenshot is requested
VShotReady ==
    /\ vis.pc = "shotWait"
    /\ settled # Null
    /\ Step([vis EXCEPT !.pc = "screenshot"], obs, {})
    /\ fired' = <<>>
    /\ UNCHANGED readyFired

\* challengeArea.screenshot() returns or throws; analyzeWithGemini is called
VScreenshot ==
    /\ vis.pc = "screenshot"
    /\ \/ Thrown(vis, obs)
       \/ Step([vis EXCEPT !.pc = "analyze"],
               [obs EXCEPT !.roundWork = TRUE], {})
    /\ fired' = <<>>
    /\ UNCHANGED readyFired

\* handleChallengeTiles treating an empty answer like a missing one
MutEmptyIsFailure(tilesToClick) ==
    tilesToClick = Null \/ tilesToClick = Some(<<>>)

\* handleChallengeTiles, line 836: if (!tilesToClick) return false
analysisFailed(tilesToClick) == tilesToClick = Null

\* analyzeWithGemini returns the tiles to click, or null after an error.
\* Without a geminiConfig it fails on geminiConfig.apiKey before any
\* request is made.
VAnalyzed ==
    /\ vis.pc = "analyze"
    /\ LET o == [obs EXCEPT !.analyses = @ + 1, !.clicked = <<>>,
                            !.tiles = <<>>]
           failed == [vis EXCEPT !.tilesToClick = Null]
       IN  IF ~vis.geminiConfig
           THEN RoundFailed(failed, o, "noGeminiConfig")
           ELSE \E tilesToClick \in {Null} \cup {Some(a) : a \in TileAnswers} :
                  LET v == [vis EXCEPT !.tilesToClick = tilesToClick,
                                       !.tile = 1]
                  IN  IF analysisFailed(tilesToClick)
                      THEN RoundFailed([v EXCEPT !.tile = 0], o, "analysis")
                      ELSE IF Len(tilesToClick[1]) = 0
                      THEN RoundDone(v, o)
                      ELSE Step([v EXCEPT !.pc = "clickTile"], o, {})
    /\ fired' = <<>>
    /\ UNCHANGED readyFired

\* clickTile(frame, coord, challengeInfo) returns; then the pause, and the
\* next tile, the next iteration or the end of handleChallengeTiles
VTileClicked ==
    /\ vis.pc = "clickTile"
    /\ LET coord == vis.tilesToClick[1][vis.tile]
           info == vis.challengeInfo[1]
           next == [vis EXCEPT !.dynamicIteration = @ + 1]
       IN  \/ \* frame.evaluate() throws: caught, false
              RoundFailed(vis, obs, "click")
           \/ \E tiles \in TileCounts :
                LET o == [obs EXCEPT
                            !.clicked = Append(@, coord),
                            !.tiles = Append(@, clickedTile(coord, tiles))]
                IN
                IF ~clickTile(coord, tiles)
                THEN RoundFailed(vis, obs, "click")
                ELSE IF vis.tile < Len(vis.tilesToClick[1])
                THEN Step([vis EXCEPT !.tile = @ + 1], o, {})
                ELSE IF staticDone(info)
                THEN RoundDone(vis, o)
                ELSE IF dynamicDone(next.dynamicIteration)
                THEN RoundDone(next, o)
                ELSE Step([next EXCEPT !.pc = "tilesWait"], o,
                          {"onTilesReady"})
    /\ fired' = <<>>
    /\ UNCHANGED readyFired

\* verifyChallenge: the wait for the tiles ends
VVerifyTilesReady ==
    /\ vis.pc = "verifyWait"
    /\ settled # Null
    /\ IF settled[1].type = "timeout"
       THEN AttemptFailed(vis, obs)
       ELSE Step([vis EXCEPT !.pc = "checkVerify"], obs, {})
    /\ fired' = <<>>
    /\ UNCHANGED readyFired

\* What the evaluate of verifyChallenge finds for #recaptcha-verify-button:
\* no such element, a disabled one, one with display none, or a button that
\* is there, enabled and displayed.
VerifyButtons == {"absent", "disabled", "hidden", "ready"}

\* verifyChallenge checking the button only
MutVerifyIgnoresPrompt(button, prompt) == button = "ready"

\* verifyChallenge, lines 921-932: the value of shouldVerify
shouldVerify(button, prompt) ==
    button = "ready" /\ Includes(prompt, SelectPhrase)

\* verifyChallenge: frame.evaluate() tells whether to verify, or throws.
\* verifyCheck keeps what this evaluation saw while the invocation goes on
\* to the click.
VCheckedVerify ==
    /\ vis.pc = "checkVerify"
    /\ \/ Thrown(vis, obs)
       \/ \E button \in VerifyButtons, prompt \in Texts :
            IF shouldVerify(button, prompt)
            THEN Step([vis EXCEPT !.pc = "clickVerify",
                                  !.verifyCheck = Some([button |-> button,
                                                        prompt |-> prompt])],
                      obs, {})
            ELSE AttemptFailed(vis, obs)
    /\ fired' = <<>>
    /\ UNCHANGED readyFired

\* verifyChallenge: frame.$('#recaptcha-verify-button'), the pause and
\* verifyButton.click(); then the race is set up
VVerifyClicked ==
    /\ vis.pc = "clickVerify"
    /\ LET v == [vis EXCEPT !.verifyCheck = Null]
       IN  \/ Thrown(v, obs)
           \/ AttemptFailed(v, obs)
           \/ Step([v EXCEPT !.pc = "raceVerify"],
                   [obs EXCEPT !.roundWork = TRUE, !.verified = TRUE],
                   {"onTokenFound", "onChallengeChange"})
    /\ fired' = <<>>
    /\ UNCHANGED readyFired

\* The geminiConfig verifyChallenge hands to handleChallengeTiles: the
\* standalone script reads its key from the environment, the library's
\* verifyChallenge has no geminiConfig to pass on.
nestedConfig(variant) == variant = "standalone"

\* verifyChallenge: the race after the verify click has a winner
VVerifyRace ==
    /\ vis.pc = "raceVerify"
    /\ settled # Null
    /\ LET result == settled[1]
       IN  IF result.type = "token"
           THEN Finish(vis, obs, Some(result.value))
           ELSE IF result.type = "challenge"
           THEN LET newChallengeInfo == result.value
                IN  IF ~newChallengeInfo.hasCorrectFormat
                    THEN Refresh(vis, obs)
                    ELSE /\ vis.depth < MaxDepth
                         /\ StartTiles([vis EXCEPT !.depth = @ + 1], obs,
                                       PromptInfo(newChallengeInfo.text),
                                       "verify", nestedConfig(vis.variant))
           ELSE AttemptFailed(vis, obs)
    /\ fired' = <<>>
    /\ UNCHANGED readyFired

\* The challenges the page shows while a solver runs: every prompt, with
\* the tile images left out (the solvers never read them).
SolverInfos == {ChallengeInfo(text, <<>>) : text \in Texts}

InitVisual ==
    /\ WatcherInit
    /\ \E variant \in Variants :
         vis = [IdleVis EXCEPT !.pc = "start", !.variant = variant]
    /\ obs = NoObs
    /\ NoAudio
    /\ NoLib

NextVisual ==
    \/ \E d \in Detectors : PollResume(d)
    \/ \E d \in Detectors : PollExit(d)
    \/ ReadyEvalDone
    \/ ReadyQueryDone
    \/ ChallengeEvalDone(SolverInfos)
    \/ TokenEvalDone
    \/ TimerFires
    \/ VStart
    \/ VCaptchaReady
    \/ VCheckboxClicked
    \/ VCheckboxRace
    \/ VGetChallenge
    \/ VRefreshed
    \/ VTilesReady
    \/ VFoundArea
    \/ VShotReady
    \/ VScreenshot
    \/ VAnalyzed
    \/ VTileClicked
    \/ VVerifyTilesReady
    \/ VCheckedVerify
    \/ VVerifyClicked
    \/ VVerifyRace

SpecVisual == InitVisual /\ [][NextVisual]_vars

\* The event loop runs every continuation that is ready and every timer
\* that is due: each step of the solver and of the detectors that stays
\* enabled is eventually taken.  What the page answers is not constrained.
FairVisual ==
    /\ \A d \in Detectors : WF_vars(PollResume(d)) /\ WF_vars(PollExit(d))
    /\ WF_vars(ReadyEvalDone) /\ WF_vars(ReadyQueryDone)
    /\ WF_vars(ChallengeEvalDone(SolverInfos)) /\ WF_vars(TokenEvalDone)
    /\ WF_vars(TimerFires)
    /\ WF_vars(VStart) /\ WF_vars(VCaptchaReady) /\ WF_vars(VCheckboxClicked)
    /\ WF_vars(VCheckboxRace) /\ WF_vars(VGetChallenge) /\ WF_vars(VRefreshed)
    /\ WF_vars(VTilesReady) /\ WF_vars(VFoundArea) /\ WF_vars(VShotReady)
    /\ WF_vars(VScreenshot) /\ WF_vars(VAnalyzed) /\ WF_vars(VTileClicked)
    /\ WF_vars(VVerifyTilesReady) /\ WF_vars(VCheckedVerify)
    /\ WF_vars(VVerifyClicked) /\ WF_vars(VVerifyRace)

SpecVisualFair == SpecVisual /\ FairVisual

(***************************************************************************)
(* downloadAndTranscribeAudio(audioUrl)                                    *)
(***************************************************************************)
maxDownloadAttempts == 3
MaxChunks == 2      \* most chunks in the body of a transcription response

\* audioResponse.status; 0 stands for a request that threw
Statuses == {0, 200, 404}
AudioData == {"mp3"}

\* The pieces of a transcription response: "text" entries with a value, an
\* empty "text" entry, and anything else.
Fragments == {[key |-> "text", value |-> "seven"],
              [key |-> "text", value |-> "nine"],
              [key |-> "text", value |-> ""],
              [key |-> "type", value |-> "FINAL"]}

\* fullResponse.match(/"text":\s*"([^"]+)"/g)
TextMatches(fullResponse) ==
    SelectSeq(fullResponse, LAMBDA f : f.key = "text" /\ f.value # "")

\* the value of the last match, null when nothing matches
audioTranscript(fullResponse) ==
    LET lastTextMatch == TextMatches(fullResponse)
    IN  IF Len(lastTextMatch) = 0 THEN Null
        ELSE Some(lastTextMatch[Len(lastTextMatch)].value)

\* the download loop never giving up
MutNeverGivesUp(downloadAttempts) == FALSE

\* line 1300: if (downloadAttempts === maxDownloadAttempts) return null
givesUp(downloadAttempts) == downloadAttempts = maxDownloadAttempts

\* downloadAndTranscribeAudio is called: downloadAttempts++ and axios.get()
CallDownload(o) ==
    /\ dl' = [IdleDl EXCEPT !.pc = "get", !.downloadAttempts = 1]
    /\ aobs' = [o EXCEPT !.downloads = @ + 1, !.gets = 1, !.statuses = <<>>,
                         !.requests = 0]

DReturn(d, r) == [d EXCEPT !.pc = "returned", !.result = r]

\* axios.get() returns a response or throws
DGet ==
    /\ dl.pc = "get"
    /\ \E status \in Statuses, data \in AudioData :
         /\ aobs' = [aobs EXCEPT !.statuses = Append(@, status),
                                 !.requests = IF status = 200 THEN 1 ELSE @]
         /\ IF status = 200
            THEN \* break; then undici.request() to the speech service
                 dl' = [dl EXCEPT !.pc = "request", !.audioData = Some(data)]
            ELSE IF givesUp(dl.downloadAttempts)
            THEN dl' = DReturn(dl, Null)
            ELSE dl' = [dl EXCEPT !.pc = "pause"]
    /\ UNCHANGED <<watcherVars, libVars, vis, obs, aud>>

\* the 1 s pause is over: the loop condition, downloadAttempts++, axios.get();
\* when the loop has ended without a download the speech service is called
\* all the same
DPaused ==
    /\ dl.pc = "pause"
    /\ IF dl.downloadAttempts < maxDownloadAttempts
       THEN /\ dl' = [dl EXCEPT !.pc = "get", !.downloadAttempts = @ + 1]
            /\ aobs' = [aobs EXCEPT !.gets = @ + 1]
       ELSE /\ dl' = [dl EXCEPT !.pc = "request"]
            /\ aobs' = [aobs EXCEPT !.requests = 1]
    /\ UNCHANGED <<watcherVars, libVars, vis, obs, aud>>

\* undici.request() returns the response or throws
DRequest ==
    /\ dl.pc = "request"
    /\ \/ dl' = DReturn(dl, Null)
       \/ dl' = [dl EXCEPT !.pc = "body", !.fullResponse = <<>>]
    /\ UNCHANGED <<watcherVars, libVars, vis, obs, aud, aobs>>

\* for await (const chunk of witResponse.body): the next chunk, an error,
\* or the end of the body and the search for the transcript
DChunk ==
    /\ dl.pc = "body"
    /\ \/ /\ Len(dl.fullResponse) < MaxChunks
          /\ \E chunk \in Fragments :
               dl' = [dl EXCEPT !.fullResponse = Append(@, chunk)]
       \/ dl' = DReturn(dl, Null)
       \/ dl' = DReturn(dl, audioTranscript(dl.fullResponse))
    /\ UNCHANGED <<watcherVars, libVars, vis, obs, aud, aobs>>

(***************************************************************************)
(* The audio solver: solveCaptchaChallenge(page) of the audio build.       *)
(* The pollers it races (waitForToken, waitForChallengeFrame,              *)
(* waitForAudioChallenge, checkForFailedChallenge, checkForBlockingMessage)*)
(* are in aud.pending until they resolve; the first of a race to resolve   *)
(* resumes the solver, the others resolve later to no effect.              *)
(***************************************************************************)
maxAudioAttempts == 3

AudioUrls == {"audio.mp3"}

Racers == {"checkbox.token", "checkbox.challenge", "audio.audio",
           "audio.blocked", "verify.token", "verify.failed", "verify.blocked"}

\* What a racer can resolve to, after its .then(): null or its result.
RacerOutcomes(r) ==
    {Null} \cup
    CASE r \in {"checkbox.token", "verify.token"} ->
           {Some([type |-> "token", token |-> t]) : t \in Tokens}
      [] r = "checkbox.challenge" -> {Some([type |-> "challenge"])}
      [] r = "audio.audio" ->
           {Some([type |-> "audio", url |-> u]) : u \in AudioUrls}
      [] r = "verify.failed" -> {Some([type |-> "needMore"])}
      [] r \in {"audio.blocked", "verify.blocked"} -> {Some([type |-> "blocked"])}

\* The race a poller takes part in, as the place where the solver waits.
RaceOf(r) ==
    IF r \in {"checkbox.token", "checkbox.challenge"} THEN "raceCheckbox"
    ELSE IF r \in {"audio.audio", "audio.blocked"} THEN "raceAudio"
    ELSE "raceVerify"

\* Promise.race settles with the first racer to resolve, whatever it
\* resolves to: a poller that gives up resolves to null and wins like any
\* other.  The racer r leaves the pending pollers, and who decided the race
\* is recorded when that was a null.
decided(a, r, result) ==
    [a EXCEPT !.pending = @ \ {r},
              !.emptyWinner[RaceOf(r)] = IF result = Null THEN r ELSE "none"]

\* the audio solver treating a blocked result like any other
MutBlockedIgnored(result) == FALSE

\* lines 1739 and 1780: result.type === 'blocked'
isBlockedResult(result) == result.type = "blocked"

AStep(a, o) ==
    /\ aud' = a
    /\ aobs' = o
    /\ dl' = dl

\* solveCaptchaChallenge returns r
AReturn(a, o, r) == AStep([a EXCEPT !.pc = "done", !.result = r], o)

\* Promise.race over the racers in R starts
ARace(a, o, pc, R) ==
    AStep([a EXCEPT !.pc = pc, !.pending = @ \cup R], o)

\* the audio loop allowing one attempt more
MutOneMoreAudioAttempt(audioAttempts, isBlocked) ==
    audioAttempts <= maxAudioAttempts /\ ~isBlocked

\* line 1670: while (audioAttempts < maxAudioAttempts && !isBlocked)
audioLoopGoesOn(audioAttempts, isBlocked) ==
    audioAttempts < maxAudioAttempts /\ ~isBlocked

\* The head of the audio loop, and the start of the attempt up to its
\* first await.
ALoop(a, o) ==
    IF audioLoopGoesOn(a.audioAttempts, a.isBlocked)
    THEN LET next == [a EXCEPT !.audioAttempts = @ + 1]
         IN  IF next.audioAttempts = 1
             THEN AStep([next EXCEPT !.pc = "audioButton"], o)
             ELSE ARace(next, o, "raceAudio", {"audio.audio", "audio.blocked"})
    ELSE AReturn(a, o, Null)

\* findCaptchaFrame(page) returns the elements or null
AStart ==
    /\ aud.pc = "start"
    /\ \/ AReturn(aud, aobs, Null)
       \/ AStep([aud EXCEPT !.pc = "clickCheckbox"], aobs)
    /\ UNCHANGED <<watcherVars, libVars, vis, obs>>

\* the pause and captchaElements.checkbox.click(): it returns, and the
\* first race starts, or throws
ACheckboxClicked ==
    /\ aud.pc = "clickCheckbox"
    /\ \/ AReturn(aud, aobs, Null)
       \/ ARace(aud, aobs, "raceCheckbox",
                {"checkbox.token", "checkbox.challenge"})
    /\ UNCHANGED <<watcherVars, libVars, vis, obs>>

\* the race after the checkbox click has a winner
ACheckboxRace ==
    /\ aud.pc = "raceCheckbox"
    /\ \E r \in aud.pending \cap {"checkbox.token", "checkbox.challenge"} :
       \E raceResult \in RacerOutcomes(r) :
         LET a == decided(aud, r, raceResult)
         IN  IF raceResult = Null
             THEN AStep([a EXCEPT !.pc = "errorShot"], aobs)
             ELSE IF raceResult[1].type = "token"
             THEN AReturn(a, aobs, Some(raceResult[1].token))
             ELSE AStep([a EXCEPT !.pc = "quickToken"], aobs)
    /\ UNCHANGED <<watcherVars, libVars, vis, obs>>

\* page.screenshot() of the failure returns or throws
AErrorShot ==
    /\ aud.pc = "errorShot"
    /\ AReturn(aud, aobs, Null)
    /\ UNCHANGED <<watcherVars, libVars, vis, obs>>

\* waitForToken(page, 10) returns a token or null
AQuickToken ==
    /\ aud.pc = "quickToken"
    /\ \/ \E immediateToken \in Tokens :
            AReturn(aud, aobs, Some(immediateToken))
       \/ ALoop(aud, aobs)
    /\ UNCHANGED <<watcherVars, libVars, vis, obs>>

\* first attempt: the wait for the audio button, bframe.$(), the scroll,
\* the pause and the click; on any failure the attempt is given up
AAudioButton ==
    /\ aud.pc = "audioButton"
    /\ \/ ALoop(aud, aobs)
       \/ ARace(aud, aobs, "raceAudio", {"audio.audio", "audio.blocked"})
    /\ UNCHANGED <<watcherVars, libVars, vis, obs>>

\* the race between the audio challenge and the blocking message has a
\* winner
AAudioRace ==
    /\ aud.pc = "raceAudio"
    /\ \E r \in aud.pending \cap {"audio.audio", "audio.blocked"} :
       \E audioResult \in RacerOutcomes(r) :
         LET a == [aud EXCEPT !.pending = @ \ {r}]
             o == [aobs EXCEPT !.blocked =
                      audioResult # Null /\ audioResult[1].type = "blocked"]
         IN  IF audioResult = Null
             THEN ALoop(a, o)
             ELSE IF isBlockedResult(audioResult[1])
             THEN AReturn([a EXCEPT !.isBlocked = TRUE], o, Null)
             ELSE IF audioResult[1].type = "audio"
             THEN /\ aud' = [a EXCEPT !.pc = "download"]
                  /\ CallDownload(o)
             ELSE \* audioResult.url is undefined: the error is caught
                  ALoop(a, o)
    /\ UNCHANGED <<watcherVars, libVars, vis, obs>>

\* downloadAndTranscribeAudio has returned
ADownloaded ==
    /\ aud.pc = "download"
    /\ dl.pc = "returned"
    /\ LET transcription == dl.result
       IN  aud' = [aud EXCEPT !.pc = IF transcription = Null THEN "reload"
                                    ELSE "type"]
    /\ dl' = IdleDl
    /\ UNCHANGED <<watcherVars, libVars, vis, obs, aobs>>

\* no transcription: the reload button is looked up and clicked, or that
\* fails; either way the next attempt
AReloaded ==
    /\ aud.pc = "reload"
    /\ ALoop(aud, aobs)
    /\ UNCHANGED <<watcherVars, libVars, vis, obs>>

\* the response field is looked up, clicked and typed into, or that fails
ATyped ==
    /\ aud.pc = "type"
    /\ \/ ALoop(aud, aobs)
       \/ AStep([aud EXCEPT !.pc = "clickVerify"],
                [aobs EXCEPT !.typed = @ + 1])
    /\ UNCHANGED <<watcherVars, libVars, vis, obs>>

\* the verify button is looked up and clicked, and the race starts, or
\* that fails
AVerifyClicked ==
    /\ aud.pc = "clickVerify"
    /\ \/ ALoop(aud, aobs)
       \/ ARace(aud, [aobs EXCEPT !.verifyClicks = @ + 1], "raceVerify",
                {"verify.token", "verify.failed", "verify.blocked"})
    /\ UNCHANGED <<watcherVars, libVars, vis, obs>>

\* the race after the verify click has a winner
AVerifyRace ==
    /\ aud.pc = "raceVerify"
    /\ \E r \in aud.pending
                  \cap {"verify.token", "verify.failed", "verify.blocked"} :
       \E verifyResult \in RacerOutcomes(r) :
         LET a == decided(aud, r, verifyResult)
             o == [aobs EXCEPT !.blocked =
                      verifyResult # Null /\ verifyResult[1].type = "blocked"]
         IN  IF verifyResult = Null
             THEN ALoop(a, o)
             ELSE IF verifyResult[1].type = "token"
             THEN AReturn(a, o, Some(verifyResult[1].token))
             ELSE IF isBlockedResult(verifyResult[1])
             THEN AReturn([a EXCEPT !.isBlocked = TRUE], o, Null)
             ELSE ALoop(a, o)
    /\ UNCHANGED <<watcherVars, libVars, vis, obs>>

\* a poller whose race is over resolves, to its result or to null: nobody
\* is left to read what it resolves to
ARacerLate ==
    /\ \E r \in aud.pending : \E result \in RacerOutcomes(r) :
         /\ aud.pc # RaceOf(r)
         /\ aud' = [aud EXCEPT !.pending = @ \ {r},
                               !.lost =
                                  IF /\ result # Null
                                     /\ RaceOf(r) # "raceAudio"
                                     /\ aud.emptyWinner[RaceOf(r)] # "none"
                                  THEN @ \cup {r} ELSE @]
    /\ UNCHANGED <<watcherVars, libVars, vis, obs, aobs, dl>>

InitAudio ==
    /\ WatcherInit
    /\ vis = IdleVis
    /\ obs = NoObs
    /\ aud = [IdleAud EXCEPT !.pc = "start"]
    /\ aobs = NoAobs
    /\ dl = IdleDl
    /\ NoLib

NextAudio ==
    \/ AStart
    \/ ACheckboxClicked
    \/ ACheckboxRace
    \/ AErrorShot
    \/ AQuickToken
    \/ AAudioButton
    \/ AAudioRace
    \/ ADownloaded
    \/ AReloaded
    \/ ATyped
    \/ AVerifyClicked
    \/ AVerifyRace
    \/ ARacerLate
    \/ DGet
    \/ DPaused
    \/ DRequest
    \/ DChunk

SpecAudio == InitAudio /\ [][NextAudio]_vars

(***************************************************************************)
(* Properties of the watcher.                                              *)
(***************************************************************************)
HasFired(f, e) == \E i \in 1..Len(f) : f[i].event = e

\* Two snapshots are equal iff same text, both image lists present and of
\* the same length, and the same URL at every position.
SnapshotEqual(curText, curUrls, newText, newUrls) ==
    /\ curText = Some(newText)
    /\ curUrls # Null
    /\ newUrls # Null
    /\ Len(curUrls[1]) = Len(newUrls[1])
    /\ \A i \in 1..Len(curUrls[1]) : curUrls[1][i] = newUrls[1][i]

\* C1: whenever a fully-loaded read B is processed while a snapshot A is
\* stored and B differs from A, onChallengeChange is fired with B and the
\* stored text and image URLs become those of B.
C1_DifferentReadFiresChange ==
    [][\A i \in 1..Len(fired') :
         (/\ fired'[i].event = "onTilesReady"
          /\ currentChallengeText # Null
          /\ ~SnapshotEqual(currentChallengeText, currentImageUrls,
                            fired'[i].info.text, Some(fired'[i].info.imageUrls)))
         => /\ \E j \in 1..Len(fired') :
                 /\ fired'[j].event = "onChallengeChange"
                 /\ fired'[j].info = fired'[i].info
            /\ currentChallengeText' = Some(fired'[i].info.text)
            /\ currentImageUrls' = Some(fired'[i].info.imageUrls)]_vars

\* C2: for the stored snapshot of every reachable state and every new
\* snapshot, _checkIfChallengeChanged returns false exactly when the two are
\* equal (same text, both image lists present, same length, same URLs).
C2_ChangedIffNotEqual ==
    \A t \in Texts : \A u \in {Null} \cup {Some(l) : l \in ImageLists} :
        checkIfChallengeChanged(currentChallengeText, currentImageUrls, t, u)
            = ~SnapshotEqual(currentChallengeText, currentImageUrls, t, u)

\* An unchanged read of a snapshot with images has just been processed.
C2_Witness ==
    /\ Len(fired) = 1
    /\ fired[1].event = "onTilesReady"
    /\ currentImageUrls # Null
    /\ Len(currentImageUrls[1]) >= 1
    /\ ~checkIfChallengeChanged(currentChallengeText, currentImageUrls,
                                fired[1].info.text, Some(fired[1].info.imageUrls))

C21_EvalFailureSwallowed ==
    [][\A d \in Detectors :
         (isWatching /\ isWatching' /\ Population(d)' < Population(d))
            => \/ d = "ready" /\ HasFired(fired', "onCaptchaReady")
               \/ d = "token" /\ HasFired(fired', "onTokenFound")]_vars

\* The references cleanup() clears.
NoReferences ==
    /\ page = Null
    /\ currentCaptchaFrame = Null
    /\ currentChallengeFrame = Null
    /\ currentCheckbox = Null
    /\ currentChallengeText = Null
    /\ currentImageUrls = Null

\* cleanup() was the last of setPage and cleanup to be called: only cleanup
\* clears this.page, and only setPage sets it
CleanedUp == starts > 0 /\ page = Null

\* C27: after cleanup() isWatching is false, and once the detector loops
\* have exited every stored reference (page, frames, checkbox, snapshot) is
\* null, also when an iteration was in flight when cleanup was called.
C27_CleanupLeavesNoReference ==
    CleanedUp =>
        /\ ~isWatching
        /\ (\A d \in Detectors : Population(d) = 0) => NoReferences

\* C29: onTilesReady is fired on every fully-loaded read, before any other
\* callback of that read, and on a read whose snapshot equals the stored
\* one it is the only callback fired.
C29_UnchangedReadFiresOnlyTilesReady ==
    [][/\ (HasFired(fired', "onChallengeOpen")
             \/ HasFired(fired', "onChallengeChange"))
          => fired'[1].event = "onTilesReady"
       /\ \A i \in 1..Len(fired') :
            (/\ fired'[i].event = "onTilesReady"
             /\ SnapshotEqual(currentChallengeText, currentImageUrls,
                              fired'[i].info.text,
                              Some(fired'[i].info.imageUrls)))
            => Len(fired') = 1]_vars

\* C30: onTokenFound is fired at most once per start of the detectors: a
\* start adds one token detector, nothing else adds one, and the detector
\* that fires onTokenFound stops polling with that firing.  The firing
\* leaves isWatching and the loops of the other two detectors as they are.
C30_TokenOncePerStartOthersGoOn ==
    [][/\ Population("token")' > Population("token")
          => /\ starts' = starts + 1
             /\ Population("token")' = Population("token") + 1
       /\ HasFired(fired', "onTokenFound")
          => /\ Population("token")' = Population("token") - 1
             /\ isWatching' = isWatching
             /\ Population("ready")' = Population("ready")
             /\ Population("challenge")' = Population("challenge")]_vars

\* onTokenFound has just been fired: the token detector is gone, the watcher
\* is still watching and the two other detectors are still polling.
C30_Witness ==
    /\ HasFired(fired, "onTokenFound")
    /\ starts = 1
    /\ isWatching
    /\ Population("token") = 0
    /\ Population("ready") = 1
    /\ Population("challenge") = 1

(***************************************************************************)
(* Properties of the visual solver.                                        *)
(***************************************************************************)
\* The solver is inside an iteration of solveChallengeLoop.
LoopPcs == {"getChallenge", "refresh", "tilesWait", "findArea", "shotWait",
            "screenshot", "analyze", "clickTile", "verifyWait", "checkVerify",
            "clickVerify", "raceVerify"}

\* handleChallengeTiles has been called for a dynamic / a static challenge.
DynamicRound == vis.challengeInfo # Null /\ vis.challengeInfo[1].isDynamic
StaticRound == vis.challengeInfo # Null /\ ~vis.challengeInfo[1].isDynamic

\* The latest analysis of the round returned at least one tile.
Matched == vis.tilesToClick # Null /\ Len(vis.tilesToClick[1]) > 0

RoundEnded == obs.roundOutcome \in {"true", "false"}

\* handleChallengeTiles returns true in this step.
RoundSucceeds == obs.roundOutcome = "running" /\ obs'.roundOutcome = "true"

IsPrefix(s, t) == Len(s) <= Len(t) /\ \A i \in 1..Len(s) : s[i] = t[i]

\* C4: when the token callback wins the race that follows the checkbox
\* click, the solver returns that token in its next step and has started no
\* challenge round (no screenshot, analysis, tile click or verify click);
\* once it has returned it does nothing more, whatever fires later.
C4_TokenFirstReturnsToken ==
    [][/\ (/\ vis.pc = "raceCheckbox"
           /\ settled # Null
           /\ settled[1].type = "token"
           /\ vis' # vis)
          => /\ vis'.pc = "done"
             /\ vis'.result = Some(settled[1].value)
             /\ obs'.checkboxWinner = "token"
             /\ ~obs'.roundWork
             /\ obs'.iterations = 0
       /\ vis.pc = "done" => (vis' = vis /\ obs' = obs)]_vars

\* The token won the race, the solver returned it, and onChallengeOpen has
\* just fired all the same.
C4_Witness ==
    /\ vis.pc = "done"
    /\ obs.checkboxWinner = "token"
    /\ vis.result # Null
    /\ HasFired(fired, "onChallengeOpen")

\* What can make a tile round fail on the side of the page or the service.
PageFaults == {"tilesTimeout", "noChallengeArea", "analysis", "click"}

\* C5: after a verify click that is followed by a new challenge with a
\* valid prompt, the tile round on the new challenge is run to its end
\* (it stops early only when the page or the analysis service fails), and
\* verify is clicked only for a round that has succeeded and has not been
\* verified yet.
C5_NewRoundThenVerify ==
    /\ [](vis.caller = "verify" /\ obs.roundOutcome = "false"
            => obs.roundFault \in PageFaults)
    /\ [][(vis.pc = "clickVerify" /\ vis'.pc = "raceVerify")
            => (obs.roundOutcome = "true" /\ ~obs.verified)]_vars

C8_AtMostMaxAttempts ==
    /\ obs.iterations <= maxAttempts
    /\ vis.attempts <= maxAttempts
    /\ vis.pc \in LoopPcs => obs.iterations = vis.attempts + 1
    /\ (vis.pc = "done" /\ obs.checkboxWinner # "token" /\ ~obs.thrown
          /\ vis.result = Null)
         => (obs.iterations = maxAttempts /\ vis.attempts = maxAttempts)
    /\ (vis.pc = "done" /\ obs.iterations > 0
          /\ (obs.thrown \/ vis.result # Null))
         => obs.iterations = vis.attempts + 1

\* Four iterations with real work in them, and the loop has returned null.
C8_Witness ==
    /\ vis.pc = "done"
    /\ vis.result = Null
    /\ ~obs.thrown
    /\ obs.iterations = maxAttempts
    /\ obs.roundWork
    /\ obs.verified

(***************************************************************************)
(* Properties of the audio solver and of the download.                     *)
(***************************************************************************)
\* C9: when a race of the audio solver is won by the blocking message, the
\* solver returns null in the same step with isBlocked set, and from then
\* on there is no further attempt, download, typing or verify click.
C9_BlockedEndsSession ==
    /\ [](aobs.blocked =>
            /\ aud.pc = "done"
            /\ aud.result = Null
            /\ aud.isBlocked
            /\ dl.pc = "idle")
    /\ [][aud.pc = "done" =>
            /\ aud'.pc = "done"
            /\ aud'.result = aud.result
            /\ aud'.audioAttempts = aud.audioAttempts
            /\ aobs' = aobs
            /\ dl' = dl]_vars

\* Blocked after the verify click of the first attempt: two attempts left.
C9_Witness ==
    /\ aobs.blocked
    /\ aud.pc = "done"
    /\ aud.audioAttempts = 1
    /\ aobs.verifyClicks = 1
    /\ aud.audioAttempts < maxAudioAttempts

\* The downloads of the current call that failed so far.
AllFailed(statuses) == \A i \in 1..Len(statuses) : statuses[i] # 200

\* C10: a call of downloadAndTranscribeAudio makes at most
\* maxDownloadAttempts downloads; no download follows one that returned
\* 200; the speech service is called exactly when a download has returned
\* 200; and after maxDownloadAttempts failures the call has returned null
\* without calling the speech service.
C10_AtMostThreeDownloads ==
    /\ aobs.gets <= maxDownloadAttempts
    /\ Len(aobs.statuses) <= aobs.gets
    /\ \A i \in 1..Len(aobs.statuses) :
         aobs.statuses[i] = 200 => i = Len(aobs.statuses)
    /\ aobs.requests = (IF AllFailed(aobs.statuses) THEN 0 ELSE 1)
    /\ ~AllFailed(aobs.statuses) => aobs.gets = Len(aobs.statuses)
    /\ (Len(aobs.statuses) = maxDownloadAttempts /\ AllFailed(aobs.statuses))
         => /\ dl.pc \in {"returned", "idle"}
            /\ dl.result = Null
            /\ aobs.gets = maxDownloadAttempts

\* Two failed downloads, a third that returned 200, and a transcript.
C10_Witness ==
    /\ Len(aobs.statuses) = maxDownloadAttempts
    /\ aobs.statuses[1] # 200
    /\ aobs.statuses[2] # 200
    /\ aobs.statuses[3] = 200
    /\ dl.pc = "returned"
    /\ dl.result # Null


\* ======================================================================
\* analyzeWithGemini
\* ======================================================================

\* The most pieces a response of the model is made of.
MaxPieces == 4

\* A response text is a sequence of pieces: "fence" for ```; the word json;
\* other text that is not JSON and holds no fence; and the text of one JSON
\* value ("value").  White space is left out: trim() and JSON.parse both
\* discard it.
Pieces == {"fence", "json", "prose", "value"}

Responses == UNION {[1..n -> Pieces] : n \in 0..MaxPieces}

Fence == <<"fence">>

FenceJson == <<"fence", "json">>

\* What an entry of the parsed object can be: an object whose has_match is
\* true, false, a non-empty string, or missing; or null instead of an object.
EntryData == {"true", "false", "string", "missing", "null"}

AnaKeys == {"[1,2]", "[3,3]"}

\* The entries of an object in the order of the text, keys distinct.
EntryLists ==
    {<<>>}
    \cup {<<[coord |-> k, data |-> d]>> : k \in AnaKeys, d \in EntryData}
    \cup {<<[coord |-> k1, data |-> d1], [coord |-> k2, data |-> d2]>> :
            <<k1, d1, k2, d2>> \in
                {t \in AnaKeys \X EntryData \X AnaKeys \X EntryData :
                    t[1] # t[3]}}

\* The JSON values the model's text can stand for.
JsonValues ==
    {[kind |-> "object", entries |-> es] : es \in EntryLists}
    \cup {[kind |-> k, entries |-> <<>>] : k \in {"null", "number", "array"}}

\* String.prototype.indexOf for sequences of pieces: 0 when sep is not in s
IndexOf(s, sep) ==
    LET hits == {i \in 1..(Len(s) - Len(sep) + 1) :
                    SubSeq(s, i, i + Len(sep) - 1) = sep}
    IN  IF hits = {} THEN 0 ELSE CHOOSE i \in hits : \A j \in hits : i <= j

includes(s, sep) == IndexOf(s, sep) # 0

\* String.prototype.split
RECURSIVE split(_, _)
split(s, sep) ==
    LET i == IndexOf(s, sep)
    IN  IF i = 0
        THEN <<s>>
        ELSE <<SubSeq(s, 1, i - 1)>>
                \o split(SubSeq(s, i + Len(sep), Len(s)), sep)

MutNoFence(response) == response

\* lines 542-547: the text handed to JSON.parse
jsonStr(response) ==
    IF includes(response, FenceJson)
    THEN split(split(response, FenceJson)[2], Fence)[1]
    ELSE IF includes(response, Fence)
         THEN split(split(response, Fence)[2], Fence)[1]
         ELSE response

\* JSON.parse: the text must be exactly one JSON value; Null stands for the
\* SyntaxError.
JSONparse(str, value) == IF str = <<"value">> THEN Some(value) ELSE Null

\* data.has_match as a condition
Truthy(data) == data \in {"true", "string"}

\* Object.entries(jsonResponse).filter(([_, data]) => data.has_match)
\*     .map(([coord]) => coord); Null stands for the TypeError thrown for a
\* null value or a null entry.
tilesToClick(value) ==
    IF value.kind = "null"
    THEN Null
    ELSE IF \E i \in 1..Len(value.entries) : value.entries[i].data = "null"
         THEN Null
         ELSE LET hits == SelectSeq(value.entries, LAMBDA e : Truthy(e.data))
              IN  Some([i \in 1..Len(hits) |-> hits[i].coord])

\* lines 536-559, with the catch of line 561
analyzeResponse(response, value) ==
    LET parsed == JSONparse(jsonStr(response), value)
    IN  IF parsed = Null THEN Null ELSE tilesToClick(parsed[1])

AnaFrame == UNCHANGED <<solverVars, dirs, gen, tracker, cap>>

\* The gridType the solver passes: challengeInfo.gridType, which
\* getCurrentChallenge and the watcher read as the className of the table
\* element ('' when getCurrentChallenge finds no such table).
Table33 == "rc-imageselect-table-33"
Table44 == "rc-imageselect-table-44"
GridTypes == {Table33, Table44, ""}

\* the two legends of analyzeWithGemini, by their last coordinate
Legend3x3 == "[1,1] .. [3,3]"
Legend4x4 == "[1,1] .. [4,4]"

\* lines 486-493: const gridDesc = gridType === "4x4" ? ... : ...
gridDesc(gridType) == IF gridType = "4x4" THEN Legend4x4 ELSE Legend3x3

\* The call.  The library build reads the key from its geminiConfig
\* argument, which a caller may leave out; the standalone script reads the
\* environment.
AnaCall(variant, config, gridType) ==
    /\ ana.pc = "idle"
    /\ variant = "standalone" => config
    /\ IF config
       THEN ana' = [ana EXCEPT !.pc = "readFile", !.variant = variant,
                               !.gridType = gridType]
       ELSE ana' = [ana EXCEPT !.pc = "returned", !.variant = variant,
                               !.gridType = gridType,
                               !.geminiConfig = FALSE, !.fault = "config"]
    /\ AnaFrame

\* await fs.readFile(screenshotPath); then the legend and the prompt are
\* put together and the request is sent
AnaReadDone(ok) ==
    /\ ana.pc = "readFile"
    /\ IF ok
       THEN ana' = [ana EXCEPT !.pc = "generateContent",
                               !.gridDesc = Some(gridDesc(ana.gridType))]
       ELSE ana' = [ana EXCEPT !.pc = "returned", !.fault = "readFile"]
    /\ AnaFrame

\* await model.generateContent(...) rejects
AnaGenerateFailed ==
    /\ ana.pc = "generateContent"
    /\ ana' = [ana EXCEPT !.pc = "returned", !.fault = "generateContent"]
    /\ AnaFrame

\* await model.generateContent(...) resolves; the rest of the function
AnaGenerated(response, value) ==
    /\ ana.pc = "generateContent"
    /\ ana' = [ana EXCEPT !.pc = "returned",
                          !.response = Some(response),
                          !.json = Some(value),
                          !.result = analyzeResponse(response, value)]
    /\ AnaFrame

InitAnalyze ==
    /\ WatcherInit
    /\ vis = IdleVis /\ obs = NoObs /\ NoAudio
    /\ Parts(IdleAna, Null, Null, Null, Null)

NextAnalyze ==
    \/ \E variant \in Variants, config \in BOOLEAN, gridType \in GridTypes :
         AnaCall(variant, config, gridType)
    \/ \E ok \in BOOLEAN : AnaReadDone(ok)
    \/ AnaGenerateFailed
    \/ /\ ana.pc = "generateContent"
       /\ \E response \in Responses, value \in JsonValues :
                AnaGenerated(response, value)

SpecAnalyze == InitAnalyze /\ [][NextAnalyze]_vars

\* ---- what the response carries, said without split -------------------

\* the first place of sep in s, given there is one
FirstAt(s, sep) ==
    CHOOSE i \in 1..Len(s) :
        /\ i + Len(sep) - 1 <= Len(s)
        /\ SubSeq(s, i, i + Len(sep) - 1) = sep
        /\ \A j \in 1..(i - 1) : SubSeq(s, j, j + Len(sep) - 1) # sep

HasPiece(s, sep) ==
    \E i \in 1..Len(s) :
        i + Len(sep) - 1 <= Len(s) /\ SubSeq(s, i, i + Len(sep) - 1) = sep

\* where the text to parse starts: after the first ```json if there is
\* one, else after the first ```, else at the start
ContentStart(s) ==
    IF HasPiece(s, FenceJson) THEN FirstAt(s, FenceJson) + 2
    ELSE IF HasPiece(s, Fence) THEN FirstAt(s, Fence) + 1
    ELSE 1

\* ... and it ends before the next ``` or, when there is no fence at all or
\* no closing one, at the end
ContentEnd(s) ==
    LET from == ContentStart(s)
        closers == {i \in from..Len(s) : s[i] = "fence"}
    IN  IF ~HasPiece(s, Fence) \/ closers = {} THEN Len(s)
        ELSE (CHOOSE i \in closers : \A j \in closers : i <= j) - 1

\* the response, with its optional fence taken off, is one JSON value
CarriesJson(s) == SubSeq(s, ContentStart(s), ContentEnd(s)) = <<"value">>

AnaReturned == ana.pc = "returned"

AnaParsed ==
    /\ ana.response # Null
    /\ CarriesJson(ana.response[1])

AnaIsObject == AnaParsed /\ ana.json[1].kind = "object"

NoEntryTrue ==
    \A i \in 1..Len(ana.json[1].entries) :
        ana.json[1].entries[i].data # "true"

NoEntryTruthy ==
    \A i \in 1..Len(ana.json[1].entries) :
        ~Truthy(ana.json[1].entries[i].data)

SomeEntryNull ==
    \E i \in 1..Len(ana.json[1].entries) :
        ana.json[1].entries[i].data = "null"

\* the failures the claim names: reading, calling, parsing
StatedFailure ==
    \/ ana.fault \in {"readFile", "generateContent"}
    \/ ana.response # Null /\ ~CarriesJson(ana.response[1])

\* C11 as stated: a response that parses, fence taken off, to an object in
\* which no entry has has_match true gives the empty list, and null is
\* returned only when reading the screenshot, calling the model or parsing
\* failed.
C11_EmptyWhenNoMatchNullOnlyOnFailure ==
    AnaReturned =>
        /\ (AnaIsObject /\ NoEntryTrue) => ana.result = Some(<<>>)
        /\ ana.result = Null => StatedFailure

\* C11 amended: null is returned exactly when the configuration is missing,
\* reading, calling or parsing failed, or the parsed value is null or has a
\* null entry; otherwise the result is the list of the keys whose has_match
\* is truthy, in the order of the object, hence empty exactly when no entry
\* has a truthy has_match.
C11_NullIffFailureOrNullValue ==
    AnaReturned =>
        /\ ana.result = Null <=>
                \/ ana.fault = "config"
                \/ StatedFailure
                \/ AnaParsed /\ ana.json[1].kind = "null"
                \/ AnaIsObject /\ SomeEntryNull
        /\ ana.result # Null =>
                /\ (ana.result[1] = <<>>) <=> NoEntryTruthy
                /\ \A i \in 1..Len(ana.json[1].entries) :
                     LET e == ana.json[1].entries[i]
                     IN  Truthy(e.data) <=>
                            \E j \in 1..Len(ana.result[1]) :
                                ana.result[1][j] = e.coord

\* a fenced response with prose around it, carrying an object whose entries
\* all say has_match false, has returned the empty list
C11_Witness ==
    /\ AnaReturned
    /\ ana.response = Some(<<"fence", "json", "value", "fence">>)
    /\ AnaIsObject
    /\ Len(ana.json[1].entries) = 2
    /\ \A i \in 1..2 : ana.json[1].entries[i].data = "false"
    /\ ana.result = Some(<<>>)


\* ======================================================================
\* The user-data directories of the audio script: launchBrowser,
\* browser.cleanup, performFullRestart and the loop of generateCaptchaTokens
\* ======================================================================

\* The directories of the pool (MAX_USER_DATA_DIRS = 15 in the script).
MaxDirs == 2

\* The browsers one run launches.
MaxLaunches == 3

\* The attempts after which a full restart is made
\* (MAX_ATTEMPTS_BEFORE_RESTART = 200 in the script).
RestartAfter == 1

DirNames == 1..MaxDirs

ConcurrentChoices == {1, 2}

\* The three places that call browser.cleanup(): the finally of the
\* session, the catch handler of browserPromise, and the forced cleanup of
\* performFullRestart.
CleanupCallers == {"own", "caught", "forced"}

\* A browser: its directory, its process, the position of its session
\* (browserPromise), how solveCaptchaChallenge ended, whether the session
\* is going to reject, and the position of each call of its cleanup.
NewBrowser(dir) ==
    [dir |-> dir, proc |-> "starting", pc |-> "none", outcome |-> "none",
     rejected |-> FALSE,
     own |-> "idle", caught |-> "idle", forced |-> "idle"]

\* page.goto and solveCaptchaChallenge give a token, give null, or throw
SolveOutcomes == {"token", "null", "error"}

DirsFrame == UNCHANGED <<solverVars, ana, gen, tracker, cap>>

\* userDataDirs.clear(); fs.rmSync(...); totalAttempts = 0; then the wait
\* of 3000 ms (lines 1863-1879)
restartCleanup(d) ==
    [d EXCEPT !.userDataDirs = {}, !.totalAttempts = 0,
              !.restart = "settling"]

\* performFullRestart up to its first await (lines 1828-1861): the loop is
\* left at once when no browser is active
performFullRestart(d) ==
    IF d.isRestartInProgress
    THEN d
    ELSE IF d.activeBrowsers = {}
         THEN restartCleanup([d EXCEPT !.isRestartInProgress = TRUE])
         ELSE [d EXCEPT !.isRestartInProgress = TRUE, !.restart = "waiting"]

\* browser.cleanup() up to its first await: browser.close() is called
callCleanup(d, b, caller) ==
    [d EXCEPT !.browsers[b][caller] = "close"]

\* generateCaptchaTokens() is called
BStart(n) ==
    /\ dirs.main = "idle"
    /\ dirs' = [dirs EXCEPT !.concurrentBrowsers = n, !.main = "loop"]
    /\ DirsFrame

\* The loop of lines 1898-1912 is due and the attempts call for a restart:
\* performFullRestart is called, awaited (line 1908) or not (line 1888).
BMainRestart ==
    /\ dirs.main = "loop"
    /\ ~dirs.isRestartInProgress
    /\ dirs.totalAttempts >= RestartAfter
    /\ dirs' = performFullRestart(dirs)
    /\ DirsFrame

\* line 1927: if (!userDataDirs.has(testDir))
mayPick(d, dir) == dir \notin d.userDataDirs

\* Lines 1912-1941: a directory that is not in the set is picked and
\* launchBrowser adds it and calls puppeteer.launch.
BPick(dir) ==
    /\ dirs.main = "loop"
    /\ ~dirs.isRestartInProgress
    /\ dirs.totalAttempts < RestartAfter
    /\ Cardinality(dirs.activeBrowsers) < dirs.concurrentBrowsers
    /\ dirs.launched < MaxLaunches
    /\ mayPick(dirs, dir)
    /\ dirs' = [dirs EXCEPT
                    !.userDataDirs = @ \cup {dir},
                    !.launched = @ + 1,
                    !.browsers = Append(@, NewBrowser(dir)),
                    !.main = "launch"]
    /\ DirsFrame

\* Lines 1919-1939: each of the 20 random probes names a directory that is
\* in the set (probes are 100 ms apart and drawn with repetition, so this
\* can happen whenever some directory is in use): userDataDir stays
\* undefined, the error is logged and the loop waits 5000 ms.
BNoDir ==
    /\ dirs.main = "loop"
    /\ ~dirs.isRestartInProgress
    /\ dirs.totalAttempts < RestartAfter
    /\ Cardinality(dirs.activeBrowsers) < dirs.concurrentBrowsers
    /\ \E dir \in DirNames : ~mayPick(dirs, dir)
    /\ dirs' = [dirs EXCEPT !.main = "noDir"]
    /\ DirsFrame

\* the wait of 5000 ms of line 1937 is over: continue
BNoDirWaited ==
    /\ dirs.main = "noDir"
    /\ dirs' = [dirs EXCEPT !.main = "loop"]
    /\ DirsFrame

\* puppeteer.launch resolves: the session starts and runs to its
\* await browser.pages(); the browser is added to activeBrowsers; the loop
\* waits 2000 ms (lines 1941-2007).
BLaunched ==
    /\ dirs.main = "launch"
    /\ LET b == dirs.launched
       IN  dirs' = [dirs EXCEPT
                        !.browsers[b].proc = "open",
                        !.browsers[b].pc = "pages",
                        !.activeBrowsers = @ \cup {b},
                        !.main = "loop"]
    /\ DirsFrame

\* puppeteer.launch rejects: the directory is released (line 1266) and the
\* loop waits 5000 ms (line 2010).
BLaunchFailed ==
    /\ dirs.main = "launch"
    /\ LET b == dirs.launched
       IN  dirs' = [dirs EXCEPT
                        !.browsers[b].proc = "closed",
                        !.browsers[b].pc = "gone",
                        !.userDataDirs = @ \ {dirs.browsers[b].dir},
                        !.main = "loop"]
    /\ DirsFrame

Launched == 1..dirs.launched

\* browser.pages() resolves; shouldRestart() (lines 1945-1949)
BPages(b) ==
    /\ dirs.browsers[b].pc = "pages"
    /\ IF dirs.isRestartInProgress
       THEN dirs' = callCleanup([dirs EXCEPT !.browsers[b].pc = "finally"],
                                b, "own")
       ELSE IF dirs.totalAttempts >= RestartAfter
            THEN dirs' = callCleanup(
                    performFullRestart(
                        [dirs EXCEPT !.browsers[b].pc = "finally"]),
                    b, "own")
            ELSE dirs' = [dirs EXCEPT !.browsers[b].pc = "solve"]
    /\ DirsFrame

\* browser.pages() rejects: the finally runs, and browserPromise will reject
BPagesFailed(b) ==
    /\ dirs.browsers[b].pc = "pages"
    /\ dirs' = callCleanup([dirs EXCEPT !.browsers[b].pc = "finally",
                                        !.browsers[b].rejected = TRUE],
                           b, "own")
    /\ DirsFrame

\* page.goto and solveCaptchaChallenge have ended, with a token or without
\* (lines 1951-1994)
BSolved(outcome) ==
    \E b \in Launched :
        /\ dirs.browsers[b].pc = "solve"
        /\ IF outcome = "token" /\ dirs.isRestartInProgress
           THEN dirs' = [dirs EXCEPT !.browsers[b].pc = "pause",
                                    !.browsers[b].outcome = outcome]
           ELSE LET counted == [dirs EXCEPT !.totalAttempts = @ + 1,
                                            !.browsers[b].pc = "finally",
                                            !.browsers[b].outcome = outcome]
                    next == IF /\ outcome = "token"
                               /\ counted.totalAttempts >= RestartAfter
                            THEN performFullRestart(counted)
                            ELSE counted
                IN  dirs' = callCleanup(next, b, "own")
        /\ DirsFrame

\* the wait of 2000 ms of line 1977 is over
BPaused(b) ==
    /\ dirs.browsers[b].pc = "pause"
    /\ dirs' = callCleanup([dirs EXCEPT !.browsers[b].pc = "finally"],
                           b, "own")
    /\ DirsFrame

\* await browser.close() of a cleanup is over (lines 1252-1256)
BClosed(b, caller) ==
    /\ dirs.browsers[b][caller] = "close"
    /\ dirs' = [dirs EXCEPT !.browsers[b].proc = "closed",
                            !.browsers[b][caller] = "delay"]
    /\ DirsFrame

\* The wait of BROWSER_CLEANUP_DELAY of a cleanup is over: the directory is
\* released (line 1260) and the caller of cleanup goes on: the session
\* leaves activeBrowsers and, when it rejects, the catch handler calls
\* cleanup again (lines 1996-2005); performFullRestart, once all the
\* cleanups it forced are over, clears activeBrowsers and goes on
\* (lines 1852-1855).
BReleased(b, caller) ==
    /\ dirs.browsers[b][caller] = "delay"
    /\ LET released == [dirs EXCEPT
                            !.browsers[b][caller] = "done",
                            !.userDataDirs = @ \ {dirs.browsers[b].dir}]
           left == [released EXCEPT !.activeBrowsers = @ \ {b},
                                    !.browsers[b].pc = "gone"]
       IN  CASE caller = "own" ->
                    dirs' = IF dirs.browsers[b].rejected
                            THEN callCleanup(left, b, "caught")
                            ELSE left
             [] caller = "caught" -> dirs' = released
             [] caller = "forced" ->
                    dirs' = IF /\ released.restart = "forcing"
                               /\ \A c \in Launched :
                                    released.browsers[c].forced
                                        \in {"idle", "done"}
                            THEN restartCleanup(
                                    [released EXCEPT !.activeBrowsers = {}])
                            ELSE released
    /\ DirsFrame

\* performFullRestart looks at activeBrowsers again after 1000 ms
\* (lines 1844-1858) and finds none left
BRestartPoll ==
    /\ dirs.restart = "waiting"
    /\ dirs.activeBrowsers = {}
    /\ dirs' = restartCleanup(dirs)
    /\ DirsFrame

\* ... or finds some left after maxWaitTime and calls cleanup on each
BRestartForce ==
    /\ dirs.restart = "waiting"
    /\ dirs.activeBrowsers # {}
    /\ dirs' = [dirs EXCEPT
                    !.restart = "forcing",
                    !.browsers = [b \in DOMAIN @ |->
                        IF b \in dirs.activeBrowsers
                        THEN [@[b] EXCEPT !.forced = "close"]
                        ELSE @[b]]]
    /\ DirsFrame

\* the wait of 3000 ms of line 1879 is over
BRestartDone ==
    /\ dirs.restart = "settling"
    /\ dirs' = [dirs EXCEPT !.restart = "idle",
                            !.isRestartInProgress = FALSE]
    /\ DirsFrame

InitDirs ==
    /\ WatcherInit
    /\ vis = IdleVis /\ obs = NoObs /\ NoAudio
    /\ Parts(Null, IdleDirs, Null, Null, Null)

NextDirs ==
    \/ \E n \in ConcurrentChoices : BStart(n)
    \/ BMainRestart
    \/ \E dir \in DirNames : BPick(dir)
    \/ BNoDir
    \/ BNoDirWaited
    \/ BLaunched
    \/ BLaunchFailed
    \/ \E b \in Launched : BPages(b)
    \/ \E b \in Launched : BPagesFailed(b)
    \/ \E outcome \in SolveOutcomes : BSolved(outcome)
    \/ \E b \in Launched : BPaused(b)
    \/ \E b \in Launched, caller \in CleanupCallers : BClosed(b, caller)
    \/ \E b \in Launched, caller \in CleanupCallers : BReleased(b, caller)
    \/ BRestartPoll
    \/ BRestartForce
    \/ BRestartDone

SpecDirs == InitDirs /\ [][NextDirs]_vars

\* a browser whose process runs on its directory
Live(b) == b \in Launched /\ dirs.browsers[b].proc = "open"

\* C12: at no time do two live browsers use the same user-data directory,
\* whatever the interleaving of launches, cleanups and full restarts.
C12_LiveDirsExclusive ==
    \A b, c \in Launched :
        Live(b) /\ Live(c) /\ b # c
            => dirs.browsers[b].dir # dirs.browsers[c].dir


\* ======================================================================
\* ResultTracker
\* ======================================================================

\* this.maxResults
maxResults == 500

\* The addResult calls made on one tracker.
MaxCalls == 503

\* The two classes: the one of the visual and 2captcha code stores
\* result.token ? true : false, the one of the audio code result.success.
TrackerKinds == {"token", "success"}

\* What the callers pass: { success: true }, { success: false }, or an
\* object with a token.
ResultArgs ==
    {[success |-> TRUE, token |-> Null],
     [success |-> FALSE, token |-> Null],
     [success |-> TRUE, token |-> Some("token1")]}

\* the success field of the entry pushed
storedSuccess(kind, arg) ==
    IF kind = "success" THEN arg.success ELSE arg.token # Null

MutNoShift(results, entry) == Append(results, entry)

\* this.results.push(entry); if (this.results.length > this.maxResults)
\* this.results.shift()
pushResult(results, entry) ==
    LET pushed == Append(results, entry)
    IN  IF Len(pushed) > maxResults THEN Tail(pushed) ELSE pushed

successCount(results) ==
    Cardinality({i \in 1..Len(results) : results[i].success})

\* (successCount / this.results.length) * 100, in hundredths as
\* toFixed(2) prints it
successRate(count, total) == (count * 10000 + total \div 2) \div total

\* getStats()
getStats(results) ==
    IF Len(results) = 0
    THEN Null
    ELSE Some([successRate |->
                    successRate(successCount(results), Len(results)),
               totalAttempts |-> Len(results),
               successfulTokens |-> successCount(results)])

\* The callers of one tracker pass a repeating series of arguments.
InputSeries ==
    {<<a>> : a \in ResultArgs}
    \cup {<<a, b>> : a \in ResultArgs, b \in ResultArgs}

TrackerFrame == UNCHANGED <<solverVars, ana, dirs, gen, cap>>

\* new ResultTracker()
TNew(kind, inputs) ==
    /\ tracker.pc = "idle"
    /\ tracker' = [tracker EXCEPT !.pc = "ready", !.kind = kind,
                                  !.inputs = inputs]
    /\ TrackerFrame

\* the argument of the next call
NextArg == tracker.inputs[(tracker.calls % Len(tracker.inputs)) + 1]

\* addResult(result); n numbers the calls
TAddResult ==
    /\ tracker.pc = "ready"
    /\ tracker.calls < MaxCalls
    /\ tracker' = [tracker EXCEPT
            !.calls = @ + 1,
            !.results = pushResult(@,
                [success |-> storedSuccess(tracker.kind, NextArg),
                 n |-> tracker.calls + 1])]
    /\ TrackerFrame

InitTracker ==
    /\ WatcherInit
    /\ vis = IdleVis /\ obs = NoObs /\ NoAudio
    /\ Parts(Null, Null, Null, IdleTracker, Null)

NextTracker ==
    \/ \E kind \in TrackerKinds, inputs \in InputSeries : TNew(kind, inputs)
    \/ TAddResult

SpecTracker == InitTracker /\ [][NextTracker]_vars

\* ======================================================================
\* The token generators of the library: generateCaptchaTokensWithAudio,
\* generateCaptchaTokensWithVisual (generateTokens) and
\* generateCaptchaTokensWith2Captcha
\* ======================================================================

\* The sessions one call may start.
MaxSessions == 2

Generators == {"audio", "visual", "2captcha"}

\* Infinity, the default of tokensToGenerate
Infinity == [finite |-> FALSE, n |-> 0]

Finite(n) == [finite |-> TRUE, n |-> n]

\* tokensToGenerate: a number or Infinity
Targets == {Finite(n) : n \in 0..MaxSessions} \cup {Infinity}

\* concurrentBrowsers and tabsPerBrowser
PoolSizes ==
    {p \in (1..MaxSessions) \X (1..MaxSessions) : p[1] * p[2] <= MaxSessions}

\* gemini.apiKey and 2captcha.apiKey are one value, null (<<>>), empty or
\* not; wit.apiKeys is a list of such values
KeyLists == {<<>>, <<"">>, <<"key">>, <<"", "key">>}

\* wit.apiKeys.filter(Boolean)
validWitKeys(apiKeys) == SelectSeq(apiKeys, LAMBDA k : k # "")

MutKeyNotChecked(variant, apiKeys) == FALSE

\* the tests of the key: !gemini.apiKey, !config2captcha.apiKey,
\* validWitKeys.length === 0
keyMissing(variant, apiKeys) ==
    IF variant = "audio"
    THEN Len(validWitKeys(apiKeys)) = 0
    ELSE apiKeys = <<>> \/ apiKeys[1] = ""

\* tokensToGenerate - tokensGenerated
remainingTokens(g) ==
    IF g.tokensToGenerate.finite
    THEN Finite(g.tokensToGenerate.n - g.tokensGenerated)
    ELSE Infinity

\* Math.min(tabsPerBrowser, remainingTokens)
tabsFor(g) ==
    LET r == remainingTokens(g)
    IN  IF ~r.finite THEN g.tabsPerBrowser
        ELSE IF g.tabsPerBrowser < r.n THEN g.tabsPerBrowser ELSE r.n

\* tokensGenerated >= tokensToGenerate
targetReached(g) ==
    g.tokensToGenerate.finite /\ g.tokensGenerated >= g.tokensToGenerate.n

\* A session: its browser, its position, how the solver ended, the events
\* emitted for it, and whether its promise rejected.
NewSession(browser, pc) ==
    [browser |-> browser, pc |-> pc, outcome |-> "none", emitted |-> <<>>,
     rejected |-> FALSE]

\* The entry ResultTracker.addResult pushes.  The tracker of the audio
\* generator stores result.success; the tracker of the visual and of the
\* 2captcha generator stores result.token ? true : false, and the
\* generators pass no token.  session and gotToken are observations.
addResult(g, session, success, gotToken) ==
    LET arg == [success |-> success, token |-> Null]
        entry == [success |-> IF g.variant = "audio"
                              THEN arg.success
                              ELSE arg.token # Null,
                  session |-> session,
                  gotToken |-> gotToken]
    IN  [g EXCEPT !.results = pushResult(@, entry)]

emit(g, session, event) ==
    [g EXCEPT !.sessions[session].emitted = Append(@, event)]

GenFrame == UNCHANGED <<solverVars, ana, dirs, tracker, cap>>

\* The generator is called; it awaits cleanupUserDataDirs.
GCall(variant, emitter, apiKeys, target, sizes) ==
    /\ gen.pc = "idle"
    /\ variant # "audio" => Len(apiKeys) <= 1
    /\ gen' = [gen EXCEPT !.variant = variant,
                          !.pc = "cleanupUserDataDirs",
                          !.eventEmitter = emitter,
                          !.apiKeys = apiKeys,
                          !.tokensToGenerate = target,
                          !.concurrentBrowsers = sizes[1],
                          !.tabsPerBrowser = sizes[2]]
    /\ GenFrame

\* The loop of the audio generator, from the test of the outer while to
\* the next await: the function returns, or a browser is launched, or
\* all browsers are busy and the loop waits 2000 ms.
audioLoop(g, outer) ==
    IF outer /\ ~(g.shouldContinue /\ ~targetReached(g))
    THEN [g EXCEPT !.pc = "returned"]
    ELSE IF Cardinality(g.activeBrowsers) < g.concurrentBrowsers
         THEN [g EXCEPT !.pc = "launch"]
         ELSE [g EXCEPT !.pc = "outer"]

\* The loops of generateTokens and of the 2captcha generator, from the test
\* of the inner for to the next await: a tab is started and the loop waits
\* 500 ms, or all tabs are started and Promise.all is awaited.
RECURSIVE tabLoop(_)
tabLoop(g) ==
    IF g.browserIndex >= g.concurrentBrowsers
    THEN [g EXCEPT !.pc = "awaitAll"]
    ELSE IF g.tabIndex < g.tabsForThisBrowser
         THEN [g EXCEPT !.pc = "tabWait",
                        !.sessions =
                            Append(@, NewSession(g.browserIndex + 1, "newPage"))]
         ELSE LET next == [g EXCEPT !.browserIndex = @ + 1, !.tabIndex = 0]
              IN  tabLoop([next EXCEPT !.tabsForThisBrowser =
                                IF next.browserIndex < next.concurrentBrowsers
                                THEN tabsFor(next) ELSE 0])

\* cleanupUserDataDirs is over: the configuration is tested, then the
\* browsers are launched (all at once, or the first of the audio loop).
GValidate ==
    /\ gen.pc = "cleanupUserDataDirs"
    /\ IF ~gen.eventEmitter \/ keyMissing(gen.variant, gen.apiKeys)
       THEN gen' = [gen EXCEPT !.pc = "threw"]
       ELSE IF gen.variant = "audio"
            THEN gen' = audioLoop(gen, TRUE)
            ELSE gen' = [gen EXCEPT !.pc = "launchAll"]
    /\ GenFrame

\* Promise.all of the launches resolves; the tab loop starts
GLaunchedAll ==
    /\ gen.pc = "launchAll"
    /\ LET opened == [gen EXCEPT !.open = 1..gen.concurrentBrowsers,
                                 !.launched = gen.concurrentBrowsers]
       IN  gen' = tabLoop([opened EXCEPT !.tabsForThisBrowser = tabsFor(opened)])
    /\ GenFrame

\* A launch rejects: generateCaptchaTokensWithVisual rejects; the 2captcha
\* generator catches, records a failure and returns.
GLaunchAllFailed ==
    /\ gen.pc = "launchAll"
    /\ IF gen.variant = "visual"
       THEN gen' = [gen EXCEPT !.pc = "threw"]
       ELSE gen' = [addResult(gen, 0, FALSE, FALSE) EXCEPT
                        !.shouldContinue = FALSE, !.pc = "returned"]
    /\ GenFrame

\* the wait of 500 ms after a tab was started is over
GTabWaited ==
    /\ gen.pc = "tabWait"
    /\ gen' = tabLoop([gen EXCEPT !.tabIndex = @ + 1])
    /\ GenFrame

Sessions == 1..Len(gen.sessions)

Running(g, s) == g.sessions[s].pc \notin {"done", "rejected"}

\* Promise.all(allPromises) settles: it resolves when every session is
\* over and rejects as soon as one has rejected; the finally closes the
\* browsers.
GAwaitedAll ==
    /\ gen.pc = "awaitAll"
    /\ \/ \E s \in Sessions : gen.sessions[s].rejected
       \/ \A s \in Sessions : gen.sessions[s].pc = "done"
    /\ gen' = [gen EXCEPT !.pc = "closeBrowsers",
                          !.failed = \E s \in Sessions : gen.sessions[s].rejected]
    /\ GenFrame

\* Promise.all(browsers.map(closeBrowser)) is over: the generator returns,
\* or rejects with the rejection of the session.
GClosedAll ==
    /\ gen.pc = "closeBrowsers"
    /\ gen' = [gen EXCEPT
                !.open = {},
                !.tornDown = {s \in Sessions : Running(gen, s)},
                !.shouldContinue =
                    IF gen.variant = "2captcha" THEN FALSE ELSE @,
                !.pc = IF gen.failed /\ gen.variant = "visual"
                       THEN "threw" ELSE "returned"]
    /\ GenFrame

\* a wait of the audio loop is over (2000 ms after a launch or when all
\* browsers are busy, 5000 ms after a failed launch)
GAudioWaited ==
    /\ gen.pc \in {"inner", "outer"}
    /\ gen' = audioLoop(gen, gen.pc = "outer")
    /\ gen.launched < MaxSessions \/ gen'.pc # "launch"
    /\ GenFrame

\* launchBrowser of the audio loop resolves: the session starts, the
\* browser is active, the loop waits 2000 ms
GLaunched ==
    /\ gen.pc = "launch"
    /\ gen.launched < MaxSessions
    /\ LET b == gen.launched + 1
       IN  gen' = [gen EXCEPT !.launched = b,
                              !.open = @ \cup {b},
                              !.activeBrowsers = @ \cup {b},
                              !.sessions = Append(@, NewSession(b, "pages")),
                              !.pc = "inner"]
    /\ GenFrame

\* launchBrowser of the audio loop rejects: the loop waits 5000 ms
GLaunchFailed ==
    /\ gen.pc = "launch"
    /\ gen' = [gen EXCEPT !.pc = "inner"]
    /\ GenFrame

\* browser.newPage() or browser.pages() resolves
GPageReady(s) ==
    /\ gen.sessions[s].pc \in {"newPage", "pages"}
    /\ gen' = [gen EXCEPT !.sessions[s].pc = "solve"]
    /\ GenFrame

\* browser.newPage() or browser.pages() rejects.  In generateTokens
\* newPage is outside the try, so the promise of the tab rejects; the
\* 2captcha generator catches and records a failure; the audio session
\* runs its finally and rejects after it.
GPageFailed(s) ==
    /\ gen.sessions[s].pc \in {"newPage", "pages"}
    /\ CASE gen.variant = "visual" ->
                gen' = [gen EXCEPT !.sessions[s].pc = "rejected",
                                   !.sessions[s].rejected = TRUE]
         [] gen.variant = "2captcha" ->
                gen' = [addResult(gen, s, FALSE, FALSE) EXCEPT
                            !.sessions[s].pc = "done"]
         [] gen.variant = "audio" ->
                gen' = [gen EXCEPT !.sessions[s].pc = "finally",
                                   !.sessions[s].rejected = TRUE]
    /\ GenFrame

\* what the session does with the result of the solver, per generator; in
\* the 2captcha generator attemptCaptcha turns an exception into null
report(g, s, outcome) ==
    CASE outcome = "token" ->
            LET counted == [addResult(emit(g, s, "tokenGenerated"),
                                      s, TRUE, TRUE)
                                EXCEPT !.tokensGenerated = @ + 1]
            IN  IF g.variant = "audio" /\ targetReached(counted)
                THEN [counted EXCEPT !.shouldContinue = FALSE]
                ELSE counted
      [] outcome = "null" ->
            IF g.variant = "2captcha"
            THEN addResult(emit(g, s, "tokenError"), s, FALSE, FALSE)
            ELSE addResult(g, s, FALSE, FALSE)
      [] outcome = "error" ->
            addResult(emit(g, s, "tokenError"), s, FALSE, FALSE)

\* page.goto and solveCaptchaChallenge are over; the finally begins
GSolved(s, outcome) ==
    /\ gen.sessions[s].pc = "solve"
    /\ gen' = [report(gen, s, outcome) EXCEPT
                    !.sessions[s].pc = "finally",
                    !.sessions[s].outcome = outcome]
    /\ GenFrame

\* page.close() or browser.cleanup() of the finally is over
GFinished(s) ==
    /\ gen.sessions[s].pc = "finally"
    /\ IF gen.variant = "audio"
       THEN gen' = [gen EXCEPT
                        !.sessions[s].pc = "done",
                        !.open = @ \ {gen.sessions[s].browser},
                        !.activeBrowsers = @ \ {gen.sessions[s].browser}]
       ELSE gen' = [gen EXCEPT !.sessions[s].pc = "done"]
    /\ GenFrame

InitGen ==
    /\ WatcherInit
    /\ vis = IdleVis /\ obs = NoObs /\ NoAudio
    /\ Parts(Null, Null, IdleGen, Null, Null)

NextGen ==
    \/ \E variant \in Generators, emitter \in BOOLEAN, apiKeys \in KeyLists,
          target \in Targets, sizes \in PoolSizes :
            GCall(variant, emitter, apiKeys, target, sizes)
    \/ GValidate
    \/ GLaunchedAll
    \/ GLaunchAllFailed
    \/ GTabWaited
    \/ GAwaitedAll
    \/ GClosedAll
    \/ GAudioWaited
    \/ GLaunched
    \/ GLaunchFailed
    \/ \E s \in Sessions : GPageReady(s)
    \/ \E s \in Sessions : GPageFailed(s)
    \/ \E s \in Sessions, outcome \in SolveOutcomes : GSolved(s, outcome)
    \/ \E s \in Sessions : GFinished(s)

SpecGen == InitGen /\ [][NextGen]_vars

\* the tokenGenerated events emitted so far
Emitted(event) ==
    Cardinality({s \in Sessions :
        \E i \in 1..Len(gen.sessions[s].emitted) :
            gen.sessions[s].emitted[i] = event})

\* C13: a generator called with tokensToGenerate = N emits at most N
\* tokenGenerated events.
C13_AtMostTargetTokens ==
    gen.tokensToGenerate.finite
        => Emitted("tokenGenerated") <= gen.tokensToGenerate.n


\* the session is over without a token: the solver returned null or threw
EndedWithoutToken(s) ==
    /\ gen.sessions[s].pc \in {"finally", "done"}
    /\ gen.sessions[s].outcome \in {"null", "error"}

HasEmitted(s, event) ==
    \E i \in 1..Len(gen.sessions[s].emitted) :
        gen.sessions[s].emitted[i] = event

\* C14: for every session that ended without a token, a tokenError event
\* was emitted.
C14_FailureEmitsTokenError ==
    \A s \in Sessions : EndedWithoutToken(s) => HasEmitted(s, "tokenError")

\* C15: the failure of one session never closes the browser of a session
\* that is still running.
C15_FailureLeavesOthersRunning == gen.tornDown = {}


\* the window entries recorded for sessions that produced a token
TokenEntries ==
    Cardinality({i \in 1..Len(gen.results) : gen.results[i].gotToken})

\* C16: after the addResult calls of a generator, getStats() reports as
\* successfulTokens the number of window entries of sessions that produced
\* a token, and as successRate that number over totalAttempts.
C16_StatsCountTokens ==
    getStats(gen.results) # Null =>
        LET stats == getStats(gen.results)[1]
        IN  /\ stats.successfulTokens = TokenEntries
            /\ stats.successRate = successRate(TokenEntries, stats.totalAttempts)

\* C17: results never holds more than 500 entries, and it holds the most
\* recent ones in the order of their calls.
C17_WindowIsLatest500 ==
    /\ Len(tracker.results) <= maxResults
    /\ Len(tracker.results) =
            IF tracker.calls < maxResults THEN tracker.calls ELSE maxResults
    /\ \A i \in 1..Len(tracker.results) :
            tracker.results[i].n = tracker.calls - Len(tracker.results) + i

\* the 501st call has evicted the first entry
C17_Witness ==
    /\ tracker.calls = maxResults + 1
    /\ Len(tracker.results) = maxResults
    /\ tracker.results[1].n = 2
    /\ tracker.results[maxResults].n = maxResults + 1


\* a required field of the configuration is missing: the event emitter,
\* the single key of the visual or 2captcha generator, or every Wit.ai key
ConfigMissing ==
    \/ ~gen.eventEmitter
    \/ gen.variant = "audio"
        /\ \A i \in 1..Len(gen.apiKeys) : gen.apiKeys[i] = ""
    \/ gen.variant # "audio"
        /\ (gen.apiKeys = <<>> \/ gen.apiKeys[1] = "")

\* C18: with a required field missing the generator throws at its tests
\* of the configuration: no browser is launched and no session is started,
\* then or later.
C18_MissingConfigFailsAtOnce ==
    (gen.pc # "idle" /\ ConfigMissing) =>
        /\ gen.launched = 0 /\ gen.open = {} /\ gen.sessions = <<>>
        /\ gen.results = <<>>
        /\ gen.pc \in {"cleanupUserDataDirs", "threw"}

\* the audio generator has thrown for a list of empty Wit.ai keys
C18_Witness ==
    /\ gen.pc = "threw"
    /\ gen.variant = "audio"
    /\ gen.eventEmitter
    /\ gen.apiKeys = <<"">>
    /\ gen.launched = 0


\* ======================================================================
\* solve2Captcha and the solveCaptchaChallenge that calls it
\* ======================================================================

\* const maxAttempts = 60 of solve2Captcha
maxPollAttempts == 60

\* resultResponse.data.status
TaskStatuses == {"processing", "ready"}

CapFrame == UNCHANGED <<solverVars, ana, dirs, gen, tracker>>

MutOneMorePoll(attempts) == attempts <= maxPollAttempts

\* while (attempts < maxAttempts)
pollAgain(attempts) == attempts < maxPollAttempts

\* solve2Captcha throws; the catch of solveCaptchaChallenge returns null
capFailed(c, how) ==
    [c EXCEPT !.pc = "returned", !.inner = how, !.result = Null]

\* The test of the loop: the wait of 10 s begins, or the loop is left and
\* the timeout error is thrown.
capLoop(c) ==
    IF pollAgain(c.attempts)
    THEN [c EXCEPT !.pc = "wait", !.waits = @ + 1]
    ELSE capFailed(c, "timeout")

\* solveCaptchaChallenge(page, config2captcha) is called and reaches
\* solve2Captcha, which posts createTask; or it returns null before
\* (no captcha elements, no sitekey, an exception).
CCall(found) ==
    /\ cap.pc = "idle"
    /\ IF found
       THEN cap' = [cap EXCEPT !.pc = "createTask", !.inner = "running"]
       ELSE cap' = [cap EXCEPT !.pc = "returned"]
    /\ CapFrame

\* createTask answers with errorId 0: the polling loop is entered
CCreated ==
    /\ cap.pc = "createTask"
    /\ cap' = capLoop(cap)
    /\ CapFrame

\* createTask answers with an error or the request fails
CCreateFailed ==
    /\ cap.pc = "createTask"
    /\ cap' = capFailed(cap, "createError")
    /\ CapFrame

\* the wait of 10 s is over: getTaskResult is posted
CWaited ==
    /\ cap.pc = "wait"
    /\ cap' = [cap EXCEPT !.pc = "poll", !.polls = @ + 1]
    /\ CapFrame

\* getTaskResult answers: with 'ready' solve2Captcha returns the token and
\* solveCaptchaChallenge inserts it into the page; otherwise attempts++
CPolled(status, token) ==
    /\ cap.pc = "poll"
    /\ IF status = "ready"
       THEN cap' = [cap EXCEPT !.pc = "insert", !.inner = "token",
                               !.solution = Some(token)]
       ELSE cap' = capLoop([cap EXCEPT !.attempts = @ + 1])
    /\ CapFrame

\* the getTaskResult request fails
CPollFailed ==
    /\ cap.pc = "poll"
    /\ cap' = capFailed(cap, "pollError")
    /\ CapFrame

\* page.evaluate that inserts the token is over
CInserted(ok) ==
    /\ cap.pc = "insert"
    /\ cap' = [cap EXCEPT !.pc = "returned",
                          !.result = IF ok THEN cap.solution ELSE Null]
    /\ CapFrame

InitCap ==
    /\ WatcherInit
    /\ vis = IdleVis /\ obs = NoObs /\ NoAudio
    /\ Parts(Null, Null, Null, Null, IdleCap)

NextCap ==
    \/ \E found \in BOOLEAN : CCall(found)
    \/ CCreated
    \/ CCreateFailed
    \/ CWaited
    \/ \E status \in TaskStatuses, token \in Tokens : CPolled(status, token)
    \/ CPollFailed
    \/ \E ok \in BOOLEAN : CInserted(ok)

SpecCap == InitCap /\ [][NextCap]_vars

\* C19: once the task is created there are at most 60 polls, each after a
\* wait of its own; the token is returned at the first 'ready' poll; after
\* 60 polls without 'ready' solve2Captcha fails, and every failure of
\* solve2Captcha makes solveCaptchaChallenge return null.
C19_AtMostSixtyPolls ==
    /\ cap.polls <= maxPollAttempts
    /\ cap.waits = cap.polls + (IF cap.pc = "wait" THEN 1 ELSE 0)
    /\ cap.inner = "token" =>
            /\ cap.polls = cap.attempts + 1
            /\ cap.solution # Null
    /\ cap.inner = "timeout" =>
            /\ cap.polls = maxPollAttempts
            /\ cap.solution = Null
    /\ cap.inner \in {"timeout", "pollError", "createError"} =>
            /\ cap.pc = "returned"
            /\ cap.result = Null

\* 60 polls without 'ready': solve2Captcha has timed out and
\* solveCaptchaChallenge has returned null
C19_Witness ==
    /\ cap.inner = "timeout"
    /\ cap.polls = maxPollAttempts
    /\ cap.waits = maxPollAttempts
    /\ cap.pc = "returned"
    /\ cap.result = Null


\* the positions of the visual solver from handleCheckboxClick on
AfterReadyPcs == LoopPcs \cup {"clickCheckbox", "raceCheckbox"}

AfterClick ==
    \/ vis.pc = "raceCheckbox"
    \/ vis.pc \in LoopPcs /\ obs.checkboxWinner # "none"

\* C22: if the token detector finds a token at any moment after the
\* checkbox click while the session is still running, the session
\* eventually returns that token.
C22_TokenAfterClickIsReturned ==
    \A t \in Tokens :
        (AfterClick /\ fired = <<[event |-> "onTokenFound", token |-> t]>>)
            ~> (vis.pc = "done" /\ vis.result = Some(t))

\* C23: every call of solveCaptchaChallenge eventually returns, and its
\* finally block has then stopped the watcher and cleared its page.
C23_EveryCallReturns ==
    <>(vis.pc = "done" /\ ~isWatching /\ page = Null)

\* Verify clicks and tile rounds of the current iteration of
\* solveChallengeLoop: every level of the recursion was entered after one
\* verify click and started one more tile round.
VerifyClicksOfIteration == vis.depth + (IF obs.verified THEN 1 ELSE 0)
TileRoundsOfIteration == IF vis.depth >= 1 THEN vis.depth + 1 ELSE 0

\* C26: the verify clicks and the tile rounds of a session are bounded by
\* the attempt budget, also when every verify click is answered with a new
\* challenge.
C26_VerifyClicksWithinBudget ==
    /\ VerifyClicksOfIteration <= maxAttempts
    /\ TileRoundsOfIteration <= maxAttempts

\* a wait for onTilesReady inside a tile round has timed out
TilesWaitTimedOut ==
    /\ vis.pc \in {"tilesWait", "shotWait"}
    /\ settled = Some([type |-> "timeout"])

\* C28: when a wait for the tiles-ready signal times out, the next step of
\* the solver ends the tile round as a failure: it takes no screenshot,
\* requests no analysis and clicks no tile.
C28_TilesTimeoutAbortsRound ==
    [][(TilesWaitTimedOut /\ vis' # vis)
         => /\ obs'.roundOutcome = "false"
            /\ vis'.pc \notin {"screenshot", "analyze", "clickTile"}]_vars

\* C24: after the verify click a token that appears while the token poller
\* is still polling is returned: the race is never decided by a poller that
\* gave up empty-handed while the token poller was to find a token.
C24_TokenAfterVerifyIsReturned == "verify.token" \notin aud.lost

\* C25: after the checkbox click a challenge frame that becomes ready
\* within its wait is taken up by the solver: the race is never decided by
\* the token poller giving up without a token while the challenge was to
\* come.
C25_ChallengeAfterEmptyTokenPoll == "checkbox.challenge" \notin aud.lost

\* C31: the verify button is clicked only by an invocation of
\* verifyChallenge whose own check found the button present, enabled and
\* displayed and the prompt containing 'Select all images with'; an
\* invocation whose check does not lead on to the click clicks nothing and
\* ends with null (attempts++) or with the exception of the evaluation.
C31_VerifyClickOnlyAfterCheck ==
    [][/\ (obs'.verified /\ ~obs.verified) =>
             /\ vis.pc = "clickVerify"
             /\ vis.verifyCheck # Null
             /\ vis.verifyCheck[1].button = "ready"
             /\ Includes(vis.verifyCheck[1].prompt, SelectPhrase)
       /\ (vis.pc = "checkVerify" /\ vis'.pc \notin {"checkVerify", "clickVerify"}) =>
             /\ obs'.verified = obs.verified
             /\ obs'.thrown \/ vis'.attempts > vis.attempts]_vars

C31_Witness ==
    /\ vis.pc = "raceVerify"
    /\ obs.verified
    /\ vis.depth > 0

\* C32: in handleChallengeTiles an analysis that returns the empty list
\* clicks no tile and ends the round with true, so that verifyChallenge
\* starts next; an analysis that returns null clicks no tile, ends the round
\* with false (attempts++), and no verify click is made for that round.
C32_EmptyVerifiesNullFails ==
    /\ [][(vis.pc = "analyze" /\ vis'.pc # "analyze") =>
            /\ vis'.tilesToClick = Some(<<>>) =>
                  /\ vis'.pc = "verifyWait"
                  /\ obs'.roundOutcome = "true"
                  /\ obs'.clicked = <<>>
            /\ vis'.tilesToClick = Null =>
                  /\ vis'.pc \in {"getChallenge", "done"}
                  /\ vis'.attempts > vis.attempts
                  /\ obs'.roundOutcome = "false"
                  /\ obs'.clicked = <<>>]_vars
    /\ [](obs.roundFault \in {"analysis", "noGeminiConfig"} =>
            obs.clicked = <<>> /\ ~obs.verified)
    /\ [](vis.tilesToClick = Some(<<>>) =>
            obs.clicked = <<>> /\ obs.roundOutcome = "true")

\* an empty analysis was followed by the verify click, in a session in which
\* an earlier round had ended on a null analysis
C32_Witness ==
    /\ vis.tilesToClick = Some(<<>>)
    /\ obs.verified
    /\ vis.attempts > 0

\* C33: solveChallengeLoop is entered only after the race that follows the
\* checkbox click was won by onChallengeOpen; a session whose checkbox was
\* missing or whose click failed attempts no challenge round.
C33_LoopOnlyAfterChallengeOpened ==
    /\ obs.iterations > 0 => obs.checkboxWinner = "challenge"
    /\ obs.roundOutcome # "none" => obs.checkboxWinner = "challenge"

\* C34: in the audio solver, when 'Multiple correct solutions required'
\* decides the race after the verify click, another audio attempt starts in
\* the same session if fewer than maxAudioAttempts attempts were made, and
\* the session returns null otherwise; no session makes more than
\* maxAudioAttempts attempts, nor more verify clicks than attempts.
NeedMoreDecides ==
    /\ aud.pc = "raceVerify"
    /\ "verify.failed" \in aud.pending
    /\ "verify.failed" \notin aud'.pending
    /\ aud'.emptyWinner["raceVerify"] = "none"

C34_NeedMoreRetriesWithinBudget ==
    /\ [][NeedMoreDecides =>
            IF aud.audioAttempts < maxAudioAttempts
            THEN /\ aud'.audioAttempts = aud.audioAttempts + 1
                 /\ aud'.pc = "raceAudio"
            ELSE /\ aud'.pc = "done"
                 /\ aud'.result = Null]_vars
    /\ [](aud.audioAttempts <= maxAudioAttempts)
    /\ [](aobs.verifyClicks <= aud.audioAttempts)

\* three attempts, each with its verify click, the last one answered by
\* 'Multiple correct solutions required': the session has returned null
C34_Witness ==
    /\ aud.pc = "done"
    /\ aud.result = Null
    /\ ~aud.isBlocked
    /\ aud.audioAttempts = maxAudioAttempts
    /\ aobs.verifyClicks = maxAudioAttempts
    /\ aud.emptyWinner["raceVerify"] = "none"

\* C35: an audio attempt waits for the audio challenge only after the
\* audio-mode button was clicked in that session: when the step that locates
\* and clicks the button fails in the first attempt, the attempt that follows
\* starts with that step again instead of going straight to the wait for the
\* audio challenge.
C35_AudioButtonClickedBeforeWait ==
    [][(aud.pc = "audioButton" /\ aud'.audioAttempts > aud.audioAttempts) =>
          aud'.pc = "audioButton"]_vars

\* C36: every click of clickTile lands on the tile whose row and column
\* (1-indexed, within the grid the page shows) the clicked coordinate names;
\* a key of the response that names no tile of the grid clicks no tile.
C36_ClicksTheNamedTile ==
    /\ Len(obs.tiles) = Len(obs.clicked)
    /\ \A i \in 1..Len(obs.clicked) :
         obs.tiles[i] = ParseCoord(obs.clicked[i])

\* C37: the legend analyzeWithGemini sends matches the grid of the
\* challenge: the 4x4 legend when the table read from the page is the 4x4
\* one, the 3x3 legend when it is the 3x3 one.
C37_LegendMatchesGrid ==
    ana # Null /\ ana.gridDesc # Null =>
        /\ ana.gridType = Table44 => ana.gridDesc = Some(Legend4x4)
        /\ ana.gridType = Table33 => ana.gridDesc = Some(Legend3x3)

\* C38: when performFullRestart clears userDataDirs and deletes the
\* chrome-user-data folder, no browser is being launched and none is live;
\* and no browser is launched while isRestartInProgress is set.
RestartClears == dirs.restart # "settling" /\ dirs'.restart = "settling"

C38_RestartFindsNoBrowser ==
    [][/\ RestartClears =>
            \A b \in Launched : dirs.browsers[b].proc = "closed"
       /\ dirs'.launched > dirs.launched => ~dirs.isRestartInProgress]_vars

\* C39: when all 20 probes hit directories in use, the audio generator
\* launches no browser in that iteration, counts and reports a failed
\* attempt, and goes back to its loop after the delay.
C39_NoDirIsFailedAttempt ==
    [][/\ (dirs.main = "loop" /\ dirs'.main = "noDir") =>
            /\ dirs'.launched = dirs.launched
            /\ dirs'.totalAttempts = dirs.totalAttempts + 1
       /\ (dirs.main = "noDir" /\ dirs'.main # "noDir") =>
            /\ dirs'.main = "loop"
            /\ dirs'.launched = dirs.launched]_vars

\* C40: while one page is watched, onChallengeChange fires only on a read
\* that finds a snapshot stored, and a snapshot is first stored (after
\* setPage or cleanup emptied it) only by a read that fires onChallengeOpen:
\* every onChallengeChange has an earlier onChallengeOpen on the same page.
C40_OpenBeforeChange ==
    [][/\ HasFired(fired', "onChallengeChange") =>
            /\ currentChallengeText # Null
            /\ ~HasFired(fired', "onChallengeOpen")
       /\ (currentChallengeText = Null /\ currentChallengeText' # Null) =>
            /\ HasFired(fired', "onChallengeOpen")
            /\ ~HasFired(fired', "onChallengeChange")
            /\ currentChallengeText' = Some(fired'[2].info.text)
            /\ currentImageUrls' = Some(fired'[2].info.imageUrls)]_vars

\* onChallengeChange fires on the page of the only start
C40_Witness ==
    /\ HasFired(fired, "onChallengeChange")
    /\ starts = 1
    /\ isWatching

====
